---- MODULE Spec2Model ----
(***************************************************************************)
(* Invoice extraction pipeline: provider gateway with bounded retries and  *)
(* fallback, three-layer validation, and the orchestrators that sequence   *)
(* them.  Two implementations live in the repository and both are          *)
(* modelled:                                                               *)
(*   "local"  src/src/invoice_extractor (extractor.py, llm_gateway.py,     *)
(*            validator.py)                                                *)
(*   "cloud"  src/functions/gcp/v1/src (data_extractor, shared/adapters)   *)
(*                                                                         *)
(* Units: monetary amounts are integers in thousandths (0.001), so the     *)
(* Decimal value 0.05 is 50; commission_rate is in hundredths (0.25 is     *)
(* 25); confidence is in 1/6000 (1.0 is 6000).  Python Decimal addition    *)
(* and comparison are exact, so integer arithmetic models them.            *)
(***************************************************************************)
EXTENDS Integers, Sequences, FiniteSets, TLC

VARIABLES
    impl,            \* "local" | "cloud" | "rules": which code is running
    cfg,             \* max_retries per provider, fallback configured
    pc,              \* position of the run
    retry_count,     \* per provider chain: retry_count
    last_error,      \* per provider chain: last_error
    calls,           \* per provider: attempts made against the provider
    waits,           \* per provider: time.sleep arguments, in order
    resp,            \* per provider: the LLMResponse its chain returned
    attempt_result,  \* cloud: per provider, what _try_extraction returned
    stages,          \* stages entered by the run, in order
    result,          \* the result the orchestrator returned
    success_records, \* extracted-invoice events / result files emitted
    error_records,   \* error records written
    escaped,         \* the functions an exception has propagated out of
    inv,             \* rules: the invoice under validation
    violations,      \* rules: what validate_business_rules returned
    in_text,         \* validators: the provider text given to them
    in_confidence,   \* validators: the provider confidence, -1 for None
    out_validation,  \* validators: what validate_extraction returned
    out_parsed,      \* validators: what _parse_and_validate returned
    out_confidence,  \* validators: what calculate_confidence returned
    run_input,       \* runs: per run, the stem and invoice of its input file
    run_pc,          \* runs: per run, the position of extract_invoice
    run_result,      \* runs: per run, the ExtractionResult returned
    processed_files, \* runs: processed_dir, image content per stem
    output_files,    \* runs: output_dir, file content per invoice_id
    error_files,     \* runs: errors_dir, file content per stem
    wr_pc,           \* writer: position of handle_invoice_extracted
    wr_message,      \* writer: the invoice of the message being handled
    wr_before,       \* writer: the invoice's rows when the write began
    wr_existed,      \* writer: what invoice_exists answered
    wr_failed_call,  \* writer: the store call that raised, if any
    wr_inserts,      \* writer: insert calls made by the current write
    write_result,    \* writer: the WriteResult returned
    handler_outcome, \* writer: how the last handler invocation ended
    deliveries,      \* writer: messages delivered so far
    invoice_rows,    \* writer: invoices table, rows per invoice_id
    line_item_rows,  \* writer: line-items table, rows per invoice_id
    metrics_rows,    \* writer: metrics table, rows
    wr_written,      \* writer: invoice_ids written by a successful insert
    dlq_message,     \* dlq: the dead-lettered message last delivered
    dlq_outcome,     \* dlq: how the last handle_dlq_message ended
    dlq_deliveries,  \* dlq: deliveries so far
    failed_bucket,   \* dlq: the error files in the failed bucket
    cw_pc,           \* writers: per writer, position in write_invoice_to_bigquery
    cw_message,      \* writers: per writer, the invoice_id it writes
    cw_existed,      \* writers: per writer, what invoice_exists answered
    cw_failed_call,  \* writers: per writer, the store call that raised
    cw_result,       \* writers: per writer, the WriteResult returned
    sm_config,       \* smoke: RunnerConfig and whether a callback is given
    sm_pc,           \* smoke: position of SmokeRunner.run
    sm_next,         \* smoke: index of the next stage of the loop
    sm_stage_results, \* smoke: stage_results
    sm_passed,       \* smoke: passed
    sm_failed,       \* smoke: failed
    sm_skipped,      \* smoke: skipped
    sm_executed,     \* smoke: the stages whose execute was called, in order
    sm_callbacks,    \* smoke: the stages on_stage_complete was called for
    sm_result        \* smoke: the SmokeResult returned

vars == <<impl, cfg, pc, retry_count, last_error, calls, waits, resp,
          attempt_result, stages, result, success_records, error_records,
          escaped, inv, violations, in_text, in_confidence, out_validation,
          out_parsed, out_confidence, run_input, run_pc, run_result,
          processed_files, output_files, error_files, wr_pc, wr_message,
          wr_before, wr_existed, wr_failed_call, wr_inserts, write_result,
          handler_outcome, deliveries, invoice_rows, line_item_rows,
          metrics_rows, wr_written, dlq_message, dlq_outcome,
          dlq_deliveries, failed_bucket, cw_pc, cw_message, cw_existed,
          cw_failed_call, cw_result, sm_config, sm_pc, sm_next,
          sm_stage_results, sm_passed, sm_failed, sm_skipped, sm_executed,
          sm_callbacks, sm_result>>

\* The state of one pipeline run, without its position.
pipeVars == <<cfg, retry_count, last_error, calls, waits, resp,
              attempt_result, stages, result, success_records,
              error_records, escaped>>

validatorVars == <<inv, violations, in_text, in_confidence, out_validation,
                   out_parsed, out_confidence>>

runVars == <<run_input, run_pc, run_result, processed_files, output_files,
             error_files>>

writerVars == <<wr_pc, wr_message, wr_before, wr_existed, wr_failed_call,
                wr_inserts, write_result, handler_outcome, deliveries,
                invoice_rows, line_item_rows, metrics_rows, wr_written>>

dlqVars == <<dlq_message, dlq_outcome, dlq_deliveries, failed_bucket>>

cwVars == <<cw_pc, cw_message, cw_existed, cw_failed_call, cw_result>>

\* The writer's state apart from the two tables.
writerOwnVars == <<wr_pc, wr_message, wr_before, wr_existed, wr_failed_call,
                   wr_inserts, write_result, handler_outcome, deliveries,
                   metrics_rows, wr_written>>

smokeVars == <<sm_config, sm_pc, sm_next, sm_stage_results, sm_passed,
               sm_failed, sm_skipped, sm_executed, sm_callbacks, sm_result>>

\* The state of the remaining components.
auxVars == <<dlqVars, cwVars, smokeVars>>

\* Everything an action of the single pipeline run leaves alone.
rulesVars == <<validatorVars, runVars, writerVars, auxVars>>

(***************************************************************************)
(* Bounds                                                                  *)
(***************************************************************************)
MaxRetriesBound == 2      \* max_retries ranges over 0..MaxRetriesBound
MaxTotal == 260           \* rules: total_amount ranges over 0..MaxTotal
MaxQuantity == 2          \* validation: line-item quantity in 1..MaxQuantity
MaxBlankLines == 1        \* validation: blank lines around a text
NumRuns == 2              \* runs: concurrent runs of extract_invoice
MaxDlqDeliveries == 3     \* dlq: messages delivered to handle_dlq_message
NumWriters == 2           \* writers: concurrent write_invoice_to_bigquery calls
MaxDeliveries == 3        \* writer: messages delivered to the handler
MaxItems == 2             \* writer: line items of an invoice, 0..MaxItems

Providers == {"gemini", "openrouter"}

(***************************************************************************)
(* Error text is a sequence of tokens <<who, what, n>>; a text contains a  *)
(* message when the message's token occurs in it.                          *)
(***************************************************************************)
Tok(who, what, n) == <<who, what, n>>

NoTok == Tok("none", "none", 0)

Contains(text, tok) == \E i \in 1..Len(text) : text[i] = tok

(***************************************************************************)
(* Invoices                                                                *)
(***************************************************************************)
NoInvoice ==
    [invoice_date |-> 0, due_date |-> 0, line_items |-> <<>>, subtotal |-> 0,
     tax_amount |-> 0, commission_rate |-> 0, commission_amount |-> 0,
     total_amount |-> 0]

validate_dates_Accept(i) == TRUE

\* ExtractedInvoice.validate_dates: raises when due_date < invoice_date and
\* returns self, unchanged, otherwise.
validate_dates(i) == ~(i.due_date < i.invoice_date)

\* Decimal.quantize(Decimal("0.01")) of n/d hundredths, n >= 0, under the
\* default context rounding ROUND_HALF_EVEN; the result is in hundredths.
QuantizeCents(n, d) ==
    LET q == n \div d
        r == n % d
    IN  IF 2 * r < d THEN q
        ELSE IF 2 * r > d THEN q + 1
        ELSE IF q % 2 = 0 THEN q ELSE q + 1

\* LineItem.amount: (quantity * unit_price).quantize(Decimal("0.01")), in
\* thousandths.
LineItemAmount(item) == 10 * QuantizeCents(item.quantity * item.unit_price, 10)

RECURSIVE LineItemsSum(_)
LineItemsSum(items) ==
    IF items = <<>> THEN 0
    ELSE LineItemAmount(Head(items)) + LineItemsSum(Tail(items))

Abs(x) == IF x < 0 THEN -x ELSE x

\* ExtractedInvoice.validate_line_items_total: compares the line-item sum
\* with the subtotal, does nothing on a mismatch and returns self.
validate_line_items_total(i) ==
    LET items_total == LineItemsSum(i.line_items)
        mismatch == Abs(items_total - i.subtotal) > 100
    IN  TRUE

\* Field constraints and the model validators of ExtractedInvoice (the
\* local LineItem also limits unit_price to two decimal places).
SchemaValid(i) ==
    /\ i.subtotal >= 0
    /\ i.tax_amount >= 0
    /\ i.commission_rate >= 0 /\ i.commission_rate <= 100
    /\ i.commission_amount >= 0
    /\ i.total_amount >= 0
    /\ \A k \in 1..Len(i.line_items) :
           /\ i.line_items[k].quantity >= 1
           /\ i.line_items[k].quantity <= 1000
           /\ i.line_items[k].unit_price >= 0
    /\ validate_dates(i)
    /\ validate_line_items_total(i)

BR001Violated_Symmetric(i) ==
    Abs(i.total_amount - (i.subtotal + i.tax_amount)) > 50

\* BR-001 test of validate_business_rules.
BR001Violated(i) ==
    LET expected_minimum == i.subtotal + i.tax_amount
    IN  i.total_amount < expected_minimum - 50

\* BR-003 test of validate_business_rules.
BR003Violated(i) ==
    LET expected_commission ==
            10 * QuantizeCents(i.subtotal * i.commission_rate, 1000)
        commission_diff == Abs(i.commission_amount - expected_commission)
    IN  commission_diff > 20

validate_business_rules_BR004Hard(i) ==
    LET v1 == IF BR001Violated(i) THEN <<Tok("BR-001", "violation", 0)>> ELSE <<>>
        v3 == IF BR003Violated(i) THEN <<Tok("BR-003", "violation", 0)>> ELSE <<>>
        items_diff == Abs(LineItemsSum(i.line_items) - i.subtotal)
        v4 == IF i.line_items # <<>> /\ items_diff > 100
              THEN <<Tok("BR-004", "violation", 0)>> ELSE <<>>
    IN  v1 \o v3 \o v4

\* validate_business_rules: the list of hard violations, in code order.
\* The BR-004 block computes the line-item difference and appends nothing.
validate_business_rules(i) ==
    LET v1 == IF BR001Violated(i) THEN <<Tok("BR-001", "violation", 0)>> ELSE <<>>
        v3 == IF BR003Violated(i) THEN <<Tok("BR-003", "violation", 0)>> ELSE <<>>
        items_diff == Abs(LineItemsSum(i.line_items) - i.subtotal)
    IN  v1 \o v3

calculate_confidence_Default90(i, llm_confidence) ==
    LET present_count == 6
        rules_passed == 6 - Len(validate_business_rules(i))
        llm_conf == IF llm_confidence = -1 THEN 90 ELSE llm_confidence
        confidence == 400 * present_count + 300 * rules_passed + 18 * llm_conf
    IN  IF confidence > 6000 THEN 6000
        ELSE IF confidence < 0 THEN 0 ELSE confidence

calculate_confidence_NoDefault(i, llm_confidence) ==
    LET present_count == 6
        rules_passed == 6 - Len(validate_business_rules(i))
        llm_conf == IF llm_confidence = -1 THEN 0 ELSE llm_confidence
        confidence == 400 * present_count + 300 * rules_passed + 18 * llm_conf
    IN  IF confidence > 6000 THEN 6000
        ELSE IF confidence < 0 THEN 0 ELSE confidence

\* calculate_confidence in 1/6000: the six required fields of a constructed
\* ExtractedInvoice are never None, so completeness is 6/6; llm_confidence
\* is in hundredths, -1 standing for None.
calculate_confidence(i, llm_confidence) ==
    LET present_count == 6
        rules_passed == 6 - Len(validate_business_rules(i))
        llm_conf == IF llm_confidence = -1 THEN 80 ELSE llm_confidence
        confidence == 400 * present_count + 300 * rules_passed + 18 * llm_conf
    IN  IF confidence > 6000 THEN 6000
        ELSE IF confidence < 0 THEN 0 ELSE confidence

(***************************************************************************)
(* Provider text                                                           *)
(***************************************************************************)
\* A provider text is a sequence of lines.  A line is blank ("ws"), a
\* fence (``` alone or ```json), or a body: text of kind "notjson"
\* (json.loads fails on it), "nonobject" (valid JSON that is not an
\* object) or "object" (a JSON object carrying the fields of inv).
Line(t, kind, i) == [t |-> t, kind |-> kind, inv |-> i]

WsLine == Line("ws", "none", NoInvoice)

\* A line that is ``` alone.
FenceLine == Line("fence", "none", NoInvoice)

\* A line that starts with ``` and goes on: ```json.
FenceJsonLine == Line("fence_json", "none", NoInvoice)

BodyLine(kind, i) == Line("body", kind, i)

NoContent == <<>>

\* str.strip() on the text: blank lines at both ends go.
RECURSIVE LStrip(_)
LStrip(lines) ==
    IF lines # <<>> /\ Head(lines).t = "ws" THEN LStrip(Tail(lines)) ELSE lines

RECURSIVE RStrip(_)
RStrip(lines) ==
    IF lines # <<>> /\ lines[Len(lines)].t = "ws"
    THEN RStrip(SubSeq(lines, 1, Len(lines) - 1))
    ELSE lines

Strip(lines) == RStrip(LStrip(lines))

\* json.loads: white space around the one JSON value is skipped; anything
\* else (no value, a fence, text that is not JSON, a second value) raises
\* JSONDecodeError.
json_loads(lines) ==
    LET v == Strip(lines)
    IN  IF Len(v) = 1 /\ v[1].t = "body" /\ v[1].kind # "notjson"
        THEN v[1]
        ELSE Line("JSONDecodeError", "none", NoInvoice)

\* The text of a provider answer: the body alone, or the body inside a
\* ```json ... ``` block.
Text(kind, fenced, i) ==
    IF fenced THEN <<FenceJsonLine, BodyLine(kind, i), FenceLine>>
    ELSE <<BodyLine(kind, i)>>

PipelineInvoices ==
    {[invoice_date |-> 2, due_date |-> d, line_items |-> <<>>,
      subtotal |-> 1000, tax_amount |-> 100, commission_rate |-> 25,
      commission_amount |-> c, total_amount |-> t] :
        d \in {1, 2}, c \in {250, 300}, t \in {900, 1050, 1300}}

Contents ==
    {Text(k, f, NoInvoice) : k \in {"notjson", "nonobject"}, f \in BOOLEAN}
    \cup {Text("object", f, i) : f \in BOOLEAN, i \in PipelineInvoices}

\* What one attempt against a provider can do: return non-empty text,
\* return empty text, raise, or time out (which raises).
Outcomes == {"ok", "empty", "exception", "timeout"}

(***************************************************************************)
(* Provider chains: call_gemini / call_openrouter and the cloud adapters   *)
(***************************************************************************)
NoResp ==
    [success |-> FALSE, content |-> NoContent, provider |-> "none",
     error_message |-> <<>>]

\* LLMResponse(success=True, content=..., provider=p)
OkResp(p, content) ==
    [success |-> TRUE, content |-> content, provider |-> p,
     error_message |-> <<>>]

\* LLMResponse(success=False, ..., error_message=
\*     f"<Provider> failed after {max_retries} retries: {last_error}")
FailResp(p, max, err) ==
    [success |-> FALSE, content |-> NoContent, provider |-> p,
     error_message |-> <<Tok(p, "failed_after_retries", max), err>>]

ChainContinues_OneMore(rc, max) == rc <= max + 1

\* `while retry_count <= config.max_retries` and the test that decides
\* between sleeping for another attempt and giving up.
ChainContinues(rc, max) == rc <= max

WaitTime_Doubled(rc) == 2 ^ rc

\* wait_time = 2 ** (retry_count - 1)
WaitTime(rc) == 2 ^ (rc - 1)

\* One iteration of the retry loop of provider p.  Everything inside the
\* try block counts as the attempt: a non-empty text returns a success
\* response; an empty text raises ValueError and is handled by the same
\* except clause as any other exception.
ProviderAttempt(p, outcome, content) ==
    /\ resp[p].provider = "none"
    /\ ChainContinues(retry_count[p], cfg.max_retries[p])
    /\ calls' = [calls EXCEPT ![p] = @ + 1]
    /\ IF outcome = "ok"
       THEN /\ resp' = [resp EXCEPT ![p] = OkResp(p, content)]
            /\ UNCHANGED <<retry_count, last_error, waits>>
       ELSE LET rc == retry_count[p] + 1
                err == Tok(p, outcome, rc)
            IN  /\ last_error' = [last_error EXCEPT ![p] = err]
                /\ retry_count' = [retry_count EXCEPT ![p] = rc]
                /\ IF ChainContinues(rc, cfg.max_retries[p])
                   THEN /\ waits' = [waits EXCEPT ![p] = Append(@, WaitTime(rc))]
                        /\ resp' = resp
                   ELSE /\ waits' = waits
                        /\ resp' = [resp EXCEPT ![p] =
                                        FailResp(p, cfg.max_retries[p], err)]

FallbackNeeded_Always(primary) == TRUE

FallbackNeeded_Never(primary) == FALSE

\* extract_with_fallback / extract_invoice: the fallback is tried when the
\* primary's outcome is not a success.
FallbackNeeded(primary) == ~primary.success

(***************************************************************************)
(* Validation and results                                                  *)
(***************************************************************************)
\* validate_schema(data): ExtractedInvoice(**data).  Only ValidationError
\* is caught; on a value that is not a mapping `**data` raises TypeError.
validate_schema(data) ==
    IF data.kind = "nonobject"
    THEN [raised |-> TRUE, has_invoice |-> FALSE, invoice |-> NoInvoice,
          errors |-> <<>>]
    ELSE IF SchemaValid(data.inv)
    THEN [raised |-> FALSE, has_invoice |-> TRUE, invoice |-> data.inv,
          errors |-> <<>>]
    ELSE [raised |-> FALSE, has_invoice |-> FALSE, invoice |-> NoInvoice,
          errors |-> <<Tok("schema", "validation_error", 0)>>]

\* validate_extraction: json.loads on the text as it is (a fenced text is
\* not JSON), validate_schema, validate_business_rules,
\* calculate_confidence.  raised: an exception left the function.
validate_extraction(raw_json, llm_confidence) ==
    LET data == json_loads(raw_json)
        bad(errs, didRaise) ==
            [raised |-> didRaise, is_valid |-> FALSE, schema_valid |-> FALSE,
             business_rules_valid |-> FALSE, confidence_score |-> 0,
             schema_errors |-> errs, business_rule_errors |-> <<>>,
             warnings |-> <<>>]
    IN  IF data.t = "JSONDecodeError"
        THEN bad(<<Tok("schema", "json_parsing_error", 0)>>, FALSE)
        ELSE LET checked == validate_schema(data)
             IN  IF checked.raised THEN bad(<<>>, TRUE)
                 ELSE IF ~checked.has_invoice THEN bad(checked.errors, FALSE)
                 ELSE LET invoice == checked.invoice
                          business_violations == validate_business_rules(invoice)
                          business_rules_valid == Len(business_violations) = 0
                      IN  [raised |-> FALSE, is_valid |-> business_rules_valid,
                           schema_valid |-> TRUE,
                           business_rules_valid |-> business_rules_valid,
                           confidence_score |->
                               calculate_confidence(invoice, llm_confidence),
                           schema_errors |-> <<>>,
                           business_rule_errors |-> business_violations,
                           warnings |-> <<>>]

\* The cleaning _parse_and_validate does before json.loads: strip; when the
\* text starts with ``` drop the first line, drop the last line when it is
\* ``` alone, and strip again.
CleanFences(content) ==
    LET cleaned == Strip(content)
    IN  IF cleaned # <<>> /\ cleaned[1].t \in {"fence", "fence_json"}
        THEN LET end_idx == IF cleaned[Len(cleaned)].t = "fence"
                            THEN Len(cleaned) - 1 ELSE Len(cleaned)
             IN  Strip(SubSeq(cleaned, 2, end_idx))
        ELSE cleaned

\* _parse_and_validate: the invoice, or the exception raised
\* (JSONDecodeError from json.loads; model_validate's failure, also on a
\* value that is not an object, re-raised as ValueError).
parse_and_validate(content) ==
    LET data == json_loads(CleanFences(content))
        failed(e) == [raised |-> e, invoice |-> NoInvoice]
    IN  IF data.t = "JSONDecodeError" THEN failed("JSONDecodeError")
        ELSE IF data.kind = "nonobject" THEN failed("ValueError")
        ELSE IF SchemaValid(data.inv)
        THEN [raised |-> "none", invoice |-> data.inv]
        ELSE failed("ValueError")

NoResult ==
    [success |-> FALSE, has_invoice |-> FALSE, invoice |-> NoInvoice,
     provider |-> "none", confidence |-> 0, errors |-> <<>>,
     warnings |-> <<>>]

Failure_NoErrors(p, errs, warns) ==
    [success |-> FALSE, has_invoice |-> FALSE, invoice |-> NoInvoice,
     provider |-> p, confidence |-> 0, errors |-> <<>>, warnings |-> warns]

\* ExtractionResult(invoice=None, success=False, ...) and the cloud's
\* InvoiceExtractionResult(success=False, invoice=None, ...).
Failure(p, errs, warns) ==
    [success |-> FALSE, has_invoice |-> FALSE, invoice |-> NoInvoice,
     provider |-> p, confidence |-> 0, errors |-> errs, warnings |-> warns]

\* ExtractionResult(invoice=invoice, success=True, ...)
Success(p, i, conf, warns) ==
    [success |-> TRUE, has_invoice |-> TRUE, invoice |-> i, provider |-> p,
     confidence |-> conf, errors |-> <<>>, warnings |-> warns]

(***************************************************************************)
(* Initial states                                                          *)
(***************************************************************************)
\* The local entry point always receives both configurations; the cloud
\* handler builds the fallback adapter only when an API key is configured.
Configs(i) ==
    {[max_retries |-> m, fallback |-> fb] :
        m \in [Providers -> 0..MaxRetriesBound],
        fb \in IF i = "local" THEN {TRUE} ELSE BOOLEAN}

PipeInit ==
    /\ pc = "start"
    /\ retry_count = [p \in Providers |-> 0]
    /\ last_error = [p \in Providers |-> NoTok]
    /\ calls = [p \in Providers |-> 0]
    /\ waits = [p \in Providers |-> <<>>]
    /\ resp = [p \in Providers |-> NoResp]
    /\ attempt_result = [p \in Providers |-> NoResult]
    /\ stages = <<>>
    /\ result = NoResult
    /\ success_records = 0
    /\ error_records = 0
    /\ escaped = {}

NoValidation ==
    [raised |-> FALSE, is_valid |-> FALSE, schema_valid |-> FALSE,
     business_rules_valid |-> FALSE, confidence_score |-> 0,
     schema_errors |-> <<>>, business_rule_errors |-> <<>>, warnings |-> <<>>]

NoParsed == [raised |-> "none", invoice |-> NoInvoice]

ValidationIdle ==
    /\ in_text = <<>>
    /\ in_confidence = -1
    /\ out_validation = NoValidation
    /\ out_parsed = NoParsed
    /\ out_confidence = 0

\* No concurrent runs: nothing submitted, the directories empty.
RunsIdle ==
    /\ run_input = <<>>
    /\ run_pc = <<>>
    /\ run_result = <<>>
    /\ processed_files = <<>>
    /\ output_files = <<>>
    /\ error_files = <<>>

NoMessage == [invoice_id |-> "none", items |-> 0, valid |-> FALSE]

NoRows == [invoice |-> 0, items |-> 0]

NoWriteResult ==
    [success |-> FALSE, invoice_id |-> "none", is_duplicate |-> FALSE,
     rows_written |-> 0, error |-> "none"]

\* No writer: nothing delivered, the tables empty.
WriterIdle ==
    /\ wr_pc = "idle"
    /\ wr_message = NoMessage
    /\ wr_before = NoRows
    /\ wr_existed = FALSE
    /\ wr_failed_call = "none"
    /\ wr_inserts = 0
    /\ write_result = NoWriteResult
    /\ handler_outcome = "none"
    /\ deliveries = 0
    /\ invoice_rows = <<>>
    /\ line_item_rows = <<>>
    /\ metrics_rows = 0
    /\ wr_written = {}

NoDlqMessage == [kind |-> "none", source_file |-> "none",
                 invoice_id |-> "none"]

\* No dead-letter processor: nothing delivered, the bucket empty.
DlqIdle ==
    /\ dlq_message = NoDlqMessage
    /\ dlq_outcome = "none"
    /\ dlq_deliveries = 0
    /\ failed_bucket = {}

\* No concurrent writers.
CwIdle ==
    /\ cw_pc = <<>>
    /\ cw_message = <<>>
    /\ cw_existed = <<>>
    /\ cw_failed_call = <<>>
    /\ cw_result = <<>>

NoRunnerConfig ==
    [fail_fast |-> FALSE, skip_logging |-> FALSE, callback |-> FALSE]

NoSmokeResult ==
    [success |-> FALSE, stages |-> <<>>, stages_passed |-> 0,
     stages_failed |-> 0, stages_skipped |-> 0]

\* No smoke run.
SmokeIdle ==
    /\ sm_config = NoRunnerConfig
    /\ sm_pc = "idle"
    /\ sm_next = 0
    /\ sm_stage_results = <<>>
    /\ sm_passed = 0
    /\ sm_failed = 0
    /\ sm_skipped = 0
    /\ sm_executed = <<>>
    /\ sm_callbacks = <<>>
    /\ sm_result = NoSmokeResult

AuxIdle == DlqIdle /\ CwIdle /\ SmokeIdle

RulesIdle ==
    /\ inv = NoInvoice
    /\ violations = <<>>
    /\ ValidationIdle
    /\ RunsIdle
    /\ WriterIdle
    /\ AuxIdle

Init ==
    /\ impl \in {"local", "cloud"}
    /\ cfg \in Configs(impl)
    /\ PipeInit
    /\ RulesIdle

(***************************************************************************)
(* Local pipeline: extract_invoice of src/src/invoice_extractor            *)
(***************************************************************************)
\* Step 1: process_invoice_image, which catches its own exceptions.
LocalProcessImage ==
    /\ impl = "local" /\ pc = "start"
    /\ \E ok \in BOOLEAN :
        IF ok
        THEN /\ stages' = Append(stages, "PREPROCESSING")
             /\ pc' = "prompt"
             /\ result' = result
        ELSE /\ stages' = stages \o <<"PREPROCESSING", "DONE_FAILURE">>
             /\ result' = Failure("gemini",
                                  <<Tok("image", "processing_failed", 0)>>, <<>>)
             /\ pc' = "returned"
    /\ UNCHANGED <<impl, cfg, retry_count, last_error, calls, waits, resp,
                   attempt_result, success_records, error_records, escaped,
                   rulesVars>>

\* Step 2: load_prompt_template / build_extraction_prompt inside try.
LocalLoadPrompt ==
    /\ impl = "local" /\ pc = "prompt"
    /\ \E ok \in BOOLEAN :
        IF ok
        THEN /\ stages' = Append(stages, "PROMPTING")
             /\ pc' = "call_gemini"
             /\ result' = result
        ELSE /\ stages' = stages \o <<"PROMPTING", "DONE_FAILURE">>
             /\ result' = Failure("gemini",
                                  <<Tok("prompt", "loading_failed", 0)>>, <<>>)
             /\ pc' = "returned"
    /\ UNCHANGED <<impl, cfg, retry_count, last_error, calls, waits, resp,
                   attempt_result, success_records, error_records, escaped,
                   rulesVars>>

\* Step 3 begins: extract_with_fallback enters call_gemini, which
\* configures the client (genai.configure only stores its arguments) and
\* initialises retry_count and last_error.
LocalCallGemini ==
    /\ impl = "local" /\ pc = "call_gemini"
    /\ stages' = Append(stages, "EXTRACTING")
    /\ pc' = "gemini_loop"
    /\ UNCHANGED <<impl, cfg, retry_count, last_error, calls, waits, resp,
                   attempt_result, result, success_records, error_records,
                   escaped, rulesVars>>

\* One iteration of call_gemini's loop; when the chain returns,
\* extract_with_fallback returns its success or moves on to call_openrouter.
LocalGeminiAttempt ==
    /\ impl = "local" /\ pc = "gemini_loop"
    /\ \E outcome \in Outcomes :
       \E content \in (IF outcome = "ok" THEN Contents ELSE {NoContent}) :
           ProviderAttempt("gemini", outcome, content)
    /\ pc' = IF resp'["gemini"].provider = "none" THEN "gemini_loop"
             ELSE IF FallbackNeeded(resp'["gemini"]) THEN "call_openrouter"
             ELSE "gateway_returned"
    /\ UNCHANGED <<impl, cfg, attempt_result, stages, result, success_records,
                   error_records, escaped, rulesVars>>

\* call_openrouter constructs its OpenAI client outside any try.
LocalCallOpenRouter ==
    /\ impl = "local" /\ pc = "call_openrouter"
    /\ \E constructed \in BOOLEAN :
        IF constructed
        THEN /\ pc' = "openrouter_loop"
             /\ escaped' = escaped
        ELSE /\ pc' = "raised"
             /\ escaped' = escaped \cup
                    {"call_openrouter", "extract_with_fallback",
                     "extract_invoice"}
    /\ UNCHANGED <<impl, cfg, retry_count, last_error, calls, waits, resp,
                   attempt_result, stages, result, success_records,
                   error_records, rulesVars>>

\* One iteration of call_openrouter's loop; extract_with_fallback returns
\* the OpenRouter response whether it succeeded or not.
LocalOpenRouterAttempt ==
    /\ impl = "local" /\ pc = "openrouter_loop"
    /\ \E outcome \in Outcomes :
       \E content \in (IF outcome = "ok" THEN Contents ELSE {NoContent}) :
           ProviderAttempt("openrouter", outcome, content)
    /\ pc' = IF resp'["openrouter"].provider = "none" THEN "openrouter_loop"
             ELSE "gateway_returned"
    /\ UNCHANGED <<impl, cfg, attempt_result, stages, result, success_records,
                   error_records, escaped, rulesVars>>

GatewayResponse_Primary == resp["gemini"]

\* The LLMResponse extract_with_fallback returned.
GatewayResponse ==
    IF resp["openrouter"].provider # "none" THEN resp["openrouter"]
    ELSE resp["gemini"]

LocalLLMFailed_Reprompt ==
    /\ impl = "local" /\ pc = "gateway_returned"
    /\ ~GatewayResponse.success
    /\ pc' = "prompt"
    /\ UNCHANGED <<impl, cfg, retry_count, last_error, calls, waits, resp,
                   attempt_result, stages, result, success_records,
                   error_records, escaped, rulesVars>>

\* `if not llm_response.success` of extract_invoice.
LocalLLMFailed ==
    /\ impl = "local" /\ pc = "gateway_returned"
    /\ ~GatewayResponse.success
    /\ result' = Failure(GatewayResponse.provider,
                         <<Tok("llm", "extraction_failed", 0)>>
                             \o GatewayResponse.error_message, <<>>)
    /\ stages' = Append(stages, "DONE_FAILURE")
    /\ pc' = "returned"
    /\ UNCHANGED <<impl, cfg, retry_count, last_error, calls, waits, resp,
                   attempt_result, success_records, error_records, escaped,
                   rulesVars>>

\* Steps 4 and 5: validate_extraction, then the result.  Step 5 re-parses
\* the text validate_extraction accepted (json.loads, ExtractedInvoice),
\* so it cannot fail after it.
LocalValidate ==
    /\ impl = "local" /\ pc = "gateway_returned"
    /\ GatewayResponse.success
    /\ LET llm_response == GatewayResponse
           validation_result == validate_extraction(llm_response.content, -1)
       IN  IF validation_result.raised
           THEN /\ stages' = Append(stages, "VALIDATING")
                /\ pc' = "raised"
                /\ result' = result
                /\ escaped' = escaped \cup
                       {"validate_schema", "validate_extraction",
                        "extract_invoice"}
           ELSE IF ~validation_result.is_valid
           THEN /\ stages' = stages \o <<"VALIDATING", "DONE_FAILURE">>
                /\ result' = Failure(llm_response.provider,
                                     validation_result.schema_errors
                                        \o validation_result.business_rule_errors,
                                     validation_result.warnings)
                /\ pc' = "returned"
                /\ escaped' = escaped
           ELSE /\ stages' = stages \o <<"VALIDATING", "DONE_SUCCESS">>
                /\ result' = Success(llm_response.provider,
                                     json_loads(llm_response.content).inv,
                                     validation_result.confidence_score,
                                     validation_result.warnings)
                /\ pc' = "returned"
                /\ escaped' = escaped
    /\ UNCHANGED <<impl, cfg, retry_count, last_error, calls, waits, resp,
                   attempt_result, success_records, error_records, rulesVars>>

\* batch_extract / the CLI after extract_invoice returned: save_result on
\* success, save_error otherwise.
LocalSave ==
    /\ impl = "local" /\ pc = "returned"
    /\ IF result.success
       THEN /\ success_records' =
                   IF result.success /\ result.has_invoice
                   THEN success_records + 1 ELSE success_records
            /\ error_records' = error_records
       ELSE /\ error_records' = error_records + 1
            /\ success_records' = success_records
    /\ pc' = "done"
    /\ UNCHANGED <<impl, cfg, retry_count, last_error, calls, waits, resp,
                   attempt_result, stages, result, escaped, rulesVars>>

(***************************************************************************)
(* Cloud pipeline: handle_invoice_classified and data_extractor            *)
(***************************************************************************)
\* _try_extraction once the adapter returned `response`: a failed response
\* becomes a failed result; a successful one is parsed and validated, and
\* an accepted invoice is returned with the fixed confidence 0.9.
TryExtraction(p, response) ==
    IF ~response.success
    THEN Failure(p, response.error_message, <<>>)
    ELSE LET parsed == parse_and_validate(response.content)
         IN  IF parsed.raised = "none"
             THEN Success(p, parsed.invoice, 5400, <<>>)
             ELSE IF parsed.raised = "JSONDecodeError"
             THEN Failure(p, <<Tok(p, "json_parse_error", 0)>>, <<>>)
             ELSE Failure(p, <<Tok(p, "validation_error", 0)>>, <<>>)

\* _try_extraction when llm_adapter.extract itself raised.
TryExtractionRaised(p) == Failure(p, <<Tok(p, "unexpected_error", 0)>>, <<>>)

\* extract_invoice's result when the fallback attempt failed too:
\* "Both providers failed. Primary: {result.error}. Fallback: {...}".
BothFailed(primary, fallback) ==
    Failure("openrouter",
            <<Tok("both", "providers_failed", 0)>>
                \o primary.errors \o fallback.errors, <<>>)

\* The handler builds its adapters, decodes the message and reads the page
\* images; any exception there is logged and re-raised.
CloudReceive ==
    /\ impl = "cloud" /\ pc = "start"
    /\ \E ok \in BOOLEAN :
        IF ok
        THEN /\ pc' = "prompt"
             /\ escaped' = escaped
        ELSE /\ pc' = "raised"
             /\ escaped' = escaped \cup {"handle_invoice_classified"}
    /\ UNCHANGED <<impl, cfg, retry_count, last_error, calls, waits, resp,
                   attempt_result, stages, result, success_records,
                   error_records, rulesVars>>

\* extract_invoice loads the prompt outside any try of its own.
CloudLoadPrompt ==
    /\ impl = "cloud" /\ pc = "prompt"
    /\ \E ok \in BOOLEAN :
        IF ok
        THEN /\ pc' = "primary"
             /\ escaped' = escaped
        ELSE /\ pc' = "raised"
             /\ escaped' = escaped \cup
                    {"load_prompt_with_langfuse",
                     "data_extractor.extract_invoice",
                     "handle_invoice_classified"}
    /\ UNCHANGED <<impl, cfg, retry_count, last_error, calls, waits, resp,
                   attempt_result, stages, result, success_records,
                   error_records, rulesVars>>

\* One iteration of GeminiAdapter.extract's loop; when the chain returns,
\* _try_extraction builds the primary result and extract_invoice returns
\* it or moves on to the fallback adapter.
CloudPrimaryAttempt ==
    /\ impl = "cloud" /\ pc = "primary"
    /\ \E outcome \in Outcomes :
       \E content \in (IF outcome = "ok" THEN Contents ELSE {NoContent}) :
           ProviderAttempt("gemini", outcome, content)
    /\ IF resp'["gemini"].provider = "none"
       THEN /\ pc' = "primary"
            /\ UNCHANGED <<attempt_result, result>>
       ELSE LET primary == TryExtraction("gemini", resp'["gemini"])
            IN  /\ attempt_result' = [attempt_result EXCEPT !["gemini"] = primary]
                /\ IF FallbackNeeded(primary) /\ cfg.fallback
                   THEN /\ pc' = "fallback_setup"
                        /\ result' = result
                   ELSE /\ pc' = "returned"
                        /\ result' = primary
    /\ UNCHANGED <<impl, cfg, stages, success_records, error_records, escaped,
                   rulesVars>>

\* OpenRouterAdapter.extract constructs its OpenAI client before its loop;
\* an exception there leaves extract and is caught by _try_extraction.
CloudFallbackSetup ==
    /\ impl = "cloud" /\ pc = "fallback_setup"
    /\ \E constructed \in BOOLEAN :
        IF constructed
        THEN /\ pc' = "fallback"
             /\ UNCHANGED <<attempt_result, result, escaped>>
        ELSE LET fallback == TryExtractionRaised("openrouter")
             IN  /\ attempt_result' =
                        [attempt_result EXCEPT !["openrouter"] = fallback]
                 /\ result' = BothFailed(attempt_result["gemini"], fallback)
                 /\ pc' = "returned"
                 /\ escaped' = escaped \cup {"OpenRouterAdapter.extract"}
    /\ UNCHANGED <<impl, cfg, retry_count, last_error, calls, waits, resp,
                   stages, success_records, error_records, rulesVars>>

\* One iteration of OpenRouterAdapter.extract's loop; when the chain
\* returns, extract_invoice returns the fallback's success or the combined
\* failure.
CloudFallbackAttempt ==
    /\ impl = "cloud" /\ pc = "fallback"
    /\ \E outcome \in Outcomes :
       \E content \in (IF outcome = "ok" THEN Contents ELSE {NoContent}) :
           ProviderAttempt("openrouter", outcome, content)
    /\ IF resp'["openrouter"].provider = "none"
       THEN /\ pc' = "fallback"
            /\ UNCHANGED <<attempt_result, result>>
       ELSE LET fallback == TryExtraction("openrouter", resp'["openrouter"])
            IN  /\ attempt_result' =
                       [attempt_result EXCEPT !["openrouter"] = fallback]
                /\ result' = IF fallback.success THEN fallback
                             ELSE BothFailed(attempt_result["gemini"], fallback)
                /\ pc' = "returned"
    /\ UNCHANGED <<impl, cfg, stages, success_records, error_records, escaped,
                   rulesVars>>

\* _copy_to_failed_bucket: copy the source, then write the error record;
\* an exception from either call is logged and swallowed.
CopyToFailedBucket(copied, written) == IF copied /\ written THEN 1 ELSE 0

\* The handler after extract_invoice returned: a failed result goes to the
\* failed bucket and the handler returns; a success is published, and an
\* exception from publish is re-raised.
CloudEmit ==
    /\ impl = "cloud" /\ pc = "returned"
    /\ IF ~result.success
       THEN /\ \E copied \in BOOLEAN, written \in BOOLEAN :
                 error_records' = error_records + CopyToFailedBucket(copied, written)
            /\ success_records' = success_records
            /\ escaped' = escaped
            /\ pc' = "done"
       ELSE \E published \in BOOLEAN :
                IF published
                THEN /\ success_records' = success_records + 1
                     /\ error_records' = error_records
                     /\ escaped' = escaped
                     /\ pc' = "done"
                ELSE /\ UNCHANGED <<success_records, error_records>>
                     /\ escaped' = escaped \cup {"handle_invoice_classified"}
                     /\ pc' = "raised"
    /\ UNCHANGED <<impl, cfg, retry_count, last_error, calls, waits, resp,
                   attempt_result, stages, result, rulesVars>>

Next ==
    \/ LocalProcessImage
    \/ LocalLoadPrompt
    \/ LocalCallGemini
    \/ LocalGeminiAttempt
    \/ LocalCallOpenRouter
    \/ LocalOpenRouterAttempt
    \/ LocalLLMFailed
    \/ LocalValidate
    \/ LocalSave
    \/ CloudReceive
    \/ CloudLoadPrompt
    \/ CloudPrimaryAttempt
    \/ CloudFallbackSetup
    \/ CloudFallbackAttempt
    \/ CloudEmit

Spec == Init /\ [][Next]_vars

(***************************************************************************)
(* Business rules as a pure function of a schema-valid invoice             *)
(***************************************************************************)
\* The invoices validate_business_rules is applied to: every combination
\* of the amounts below that ExtractedInvoice accepts.
RuleInvoices ==
    {i \in [invoice_date : {1}, due_date : {1, 2}, line_items : {<<>>},
            subtotal : {0, 100, 137, 1370}, tax_amount : {0, 60},
            commission_rate : {0, 25},
            commission_amount : {0, 25, 34, 320, 340, 370},
            total_amount : 0..MaxTotal] : SchemaValid(i)}

RulesInit ==
    /\ impl = "rules"
    /\ cfg = [max_retries |-> [p \in Providers |-> 0], fallback |-> FALSE]
    /\ PipeInit
    /\ inv \in RuleInvoices
    /\ violations = <<>>
    /\ ValidationIdle
    /\ RunsIdle
    /\ WriterIdle
    /\ AuxIdle

\* validate_business_rules(invoice)
CheckBusinessRules ==
    /\ impl = "rules" /\ pc = "start"
    /\ violations' = validate_business_rules(inv)
    /\ pc' = "checked"
    /\ UNCHANGED <<impl, cfg, retry_count, last_error, calls, waits, resp,
                   attempt_result, stages, result, success_records,
                   error_records, escaped, inv, in_text, in_confidence,
                   out_validation, out_parsed, out_confidence, runVars, writerVars,
                   auxVars>>

RulesNext == CheckBusinessRules

SpecRules == RulesInit /\ [][RulesNext]_vars

(***************************************************************************)
(* The validators as functions of a provider text                          *)
(***************************************************************************)
\* The line items of the sample UberEats invoice: they add up to its
\* subtotal of 1480.00.
SampleLineItems ==
    <<[quantity |-> 1, unit_price |-> 1250000],
      [quantity |-> 1, unit_price |-> 185000],
      [quantity |-> 1, unit_price |-> 45000]>>

LineItemLists ==
    {<<>>, SampleLineItems}
    \cup {<<[quantity |-> q, unit_price |-> 45000]>> : q \in 1..MaxQuantity}

\* The sample invoice (subtotal 1480.00, commission 25% = 370.00, total
\* 1110.00) and its variations: a total equal to the subtotal, a missing
\* commission, a due date before the invoice date, other line items.
ValidationInvoices ==
    [invoice_date : {2}, due_date : {1, 2, 3}, line_items : LineItemLists,
     subtotal : {1480000}, tax_amount : {0}, commission_rate : {25},
     commission_amount : {370000, 0}, total_amount : {1110000, 1480000}]

Bodies ==
    {BodyLine(k, NoInvoice) : k \in {"notjson", "nonobject"}}
    \cup {BodyLine("object", i) : i \in ValidationInvoices}

BlankLines(n) == [k \in 1..n |-> WsLine]

\* `lines` with b blank lines before and a blank lines after.
Pad(lines, b, a) == BlankLines(b) \o lines \o BlankLines(a)

\* A text wrapped in a fenced block: an opening fence line, the text, a
\* closing fence line, and white space around the block.
Wrapped(lines, open, b, a) == Pad(<<open>> \o lines \o <<FenceLine>>, b, a)

PlainTexts ==
    {Pad(<<body>>, b, a) :
        body \in Bodies, b \in 0..MaxBlankLines, a \in 0..MaxBlankLines}

WrappedTexts ==
    {Wrapped(T, open, b, a) :
        T \in PlainTexts, open \in {FenceLine, FenceJsonLine},
        b \in 0..MaxBlankLines, a \in 0..MaxBlankLines}

\* llm_confidence in hundredths: None (-1), values of [0, 1], and values
\* outside it.
LlmConfidences == {-1, 0, 50, 80, 90, 100, 150, -300}

ValidationInit ==
    /\ impl = "validation"
    /\ cfg = [max_retries |-> [p \in Providers |-> 0], fallback |-> FALSE]
    /\ PipeInit
    /\ inv = NoInvoice
    /\ violations = <<>>
    /\ in_text \in PlainTexts \cup WrappedTexts
    /\ in_confidence \in LlmConfidences
    /\ out_validation = NoValidation
    /\ out_parsed = NoParsed
    /\ out_confidence = 0
    /\ RunsIdle
    /\ WriterIdle
    /\ AuxIdle

\* validate_extraction(raw_json, llm_confidence)
ValidateExtraction ==
    /\ impl = "validation" /\ pc = "start"
    /\ out_validation' = validate_extraction(in_text, in_confidence)
    /\ pc' = "validated"
    /\ UNCHANGED <<impl, cfg, retry_count, last_error, calls, waits, resp,
                   attempt_result, stages, result, success_records,
                   error_records, escaped, inv, violations, in_text,
                   in_confidence, out_parsed, out_confidence, runVars, writerVars,
                   auxVars>>

\* _parse_and_validate(content)
ParseAndValidate ==
    /\ impl = "validation" /\ pc = "start"
    /\ out_parsed' = parse_and_validate(in_text)
    /\ pc' = "parsed"
    /\ UNCHANGED <<impl, cfg, retry_count, last_error, calls, waits, resp,
                   attempt_result, stages, result, success_records,
                   error_records, escaped, inv, violations, in_text,
                   in_confidence, out_validation, out_confidence, runVars, writerVars,
                   auxVars>>

\* calculate_confidence(invoice, llm_confidence) on the ExtractedInvoice
\* constructed from the text.
CalculateConfidence ==
    /\ impl = "validation" /\ pc = "start"
    /\ LET data == json_loads(in_text)
       IN  /\ data.t = "body" /\ data.kind = "object"
           /\ validate_schema(data).has_invoice
           /\ inv' = validate_schema(data).invoice
    /\ violations' = validate_business_rules(inv')
    /\ out_confidence' = calculate_confidence(inv', in_confidence)
    /\ pc' = "scored"
    /\ UNCHANGED <<impl, cfg, retry_count, last_error, calls, waits, resp,
                   attempt_result, stages, result, success_records,
                   error_records, escaped, in_text, in_confidence,
                   out_validation, out_parsed, runVars, writerVars,
                   auxVars>>

ValidationNext ==
    \/ ValidateExtraction
    \/ ParseAndValidate
    \/ CalculateConfidence

SpecValidation == ValidationInit /\ [][ValidationNext]_vars

(***************************************************************************)
(* Concurrent runs of the local extract_invoice over the same directories  *)
(***************************************************************************)
Runs == 1..NumRuns

Stems == {"a", "b"}

InvoiceIds == {"X", "Y"}

\* A file that does not exist.
NoFile == [input_file |-> 0, image |-> 0]

\* The content of a file written for the run whose input is input_file,
\* from the page image `image` (the image of input k is k).
File(input_file, image) == [input_file |-> input_file, image |-> image]

NoRunResult == [success |-> FALSE, image |-> 0, invoice_id |-> "none"]

\* Each run is given an input file: its stem and the invoice_id printed on
\* the invoice it shows.  Two input files may share a stem (a.png and
\* a.jpg, or the same name in two directories) and two invoices an id.
RunsInit ==
    /\ impl = "runs"
    /\ cfg = [max_retries |-> [p \in Providers |-> 0], fallback |-> FALSE]
    /\ PipeInit
    /\ inv = NoInvoice
    /\ violations = <<>>
    /\ ValidationIdle
    /\ run_input \in [Runs -> [stem : Stems, invoice_id : InvoiceIds]]
    /\ run_pc = [r \in Runs |-> "start"]
    /\ run_result = [r \in Runs |-> NoRunResult]
    /\ processed_files = [st \in Stems |-> 0]
    /\ output_files = [id \in InvoiceIds |-> NoFile]
    /\ error_files = [st \in Stems |-> NoFile]
    /\ WriterIdle
    /\ AuxIdle

\* process_invoice_image: the page is saved as
\* processed_dir / f"{input_path.stem}_processed.png".
RunProcessImage(r) ==
    /\ impl = "runs" /\ run_pc[r] = "start"
    /\ processed_files' =
           [processed_files EXCEPT ![run_input[r].stem] = r]
    /\ run_pc' = [run_pc EXCEPT ![r] = "processed"]
    /\ UNCHANGED <<impl, pc, pipeVars, validatorVars, writerVars, auxVars,
                   run_input,
                   run_result, output_files, error_files>>

\* extract_with_fallback: the provider chain opens the processed file and
\* sends what it holds at that moment; the provider answers with the
\* invoice shown on the page it was sent, or fails.
RunExtract(r) ==
    /\ impl = "runs" /\ run_pc[r] = "processed"
    /\ LET img_data == processed_files[run_input[r].stem]
       IN  \E ok \in BOOLEAN :
               run_result' = [run_result EXCEPT ![r] =
                   IF ok
                   THEN [success |-> TRUE, image |-> img_data,
                         invoice_id |-> run_input[img_data].invoice_id]
                   ELSE [success |-> FALSE, image |-> img_data,
                         invoice_id |-> "none"]]
    /\ run_pc' = [run_pc EXCEPT ![r] = "returned"]
    /\ UNCHANGED <<impl, pc, pipeVars, validatorVars, writerVars, auxVars,
                   run_input,
                   processed_files, output_files, error_files>>

\* save_result writes output_dir / f"{invoice_id}.json"; save_error writes
\* errors_dir / f"{input_path.stem}_error.json".
RunSave(r) ==
    /\ impl = "runs" /\ run_pc[r] = "returned"
    /\ IF run_result[r].success
       THEN /\ output_files' =
                   [output_files EXCEPT ![run_result[r].invoice_id] =
                        File(r, run_result[r].image)]
            /\ error_files' = error_files
       ELSE /\ error_files' =
                   [error_files EXCEPT ![run_input[r].stem] =
                        File(r, run_result[r].image)]
            /\ output_files' = output_files
    /\ run_pc' = [run_pc EXCEPT ![r] = "done"]
    /\ UNCHANGED <<impl, pc, pipeVars, validatorVars, writerVars, auxVars,
                   run_input,
                   run_result, processed_files>>

RunsNext ==
    \E r \in Runs :
        \/ RunProcessImage(r)
        \/ RunExtract(r)
        \/ RunSave(r)

SpecRuns == RunsInit /\ [][RunsNext]_vars

(***************************************************************************)
(* BigQuery writer: handle_invoice_extracted and write_invoice_to_bigquery *)
(* handling one message after the other                                    *)
(***************************************************************************)
\* The outcome of one call to the store: it succeeds; it raises without
\* having done anything; or (inserts only) it raises although the rows
\* were inserted, as when the answer is lost.
CallOutcomes == {"ok", "rejected", "lost"}

\* WriteResult(success=True, is_duplicate=True, rows_written=0)
DuplicateResult(id) ==
    [success |-> TRUE, invoice_id |-> id, is_duplicate |-> TRUE,
     rows_written |-> 0, error |-> "none"]

\* WriteResult(success=True, is_duplicate=False, rows_written=total_rows)
WrittenResult(id, total_rows) ==
    [success |-> TRUE, invoice_id |-> id, is_duplicate |-> FALSE,
     rows_written |-> total_rows, error |-> "none"]

\* The except clause: WriteResult(success=False, is_duplicate=False,
\* rows_written=0, error=str(e)).
FailedResult(id, e) ==
    [success |-> FALSE, invoice_id |-> id, is_duplicate |-> FALSE,
     rows_written |-> 0, error |-> e]

InsertRows_IfAbsent(rows, id, n) ==
    IF rows[id] > 0 THEN rows ELSE [rows EXCEPT ![id] = @ + n]

\* insert_rows_json(table_id, rows): a streaming insert, which appends the
\* rows whatever the table holds.
InsertRows(rows, id, n) == [rows EXCEPT ![id] = @ + n]

\* len(_prepare_line_item_rows(invoice)): the line items of the invoice
\* with this invoice_id.
ItemsOf(id) == IF id = "X" THEN MaxItems ELSE 0

InvoiceExists_Never(rows, id) == FALSE

\* GCPBigQueryAdapter.invoice_exists: SELECT COUNT(*) ... WHERE
\* invoice_id = @invoice_id, count > 0.
InvoiceExists(rows, id) == rows[id] > 0

HandlerReraises_Never(r) == FALSE

\* handle_invoice_extracted: `if not result.success: raise RuntimeError`,
\* which the except clause logs and re-raises.
HandlerReraises(r) == ~r.success

\* The store may already hold a row of an invoice written earlier.
WriterInit ==
    /\ impl = "writer"
    /\ cfg = [max_retries |-> [p \in Providers |-> 0], fallback |-> FALSE]
    /\ PipeInit
    /\ inv = NoInvoice
    /\ violations = <<>>
    /\ ValidationIdle
    /\ RunsIdle
    /\ AuxIdle
    /\ wr_pc = "idle"
    /\ wr_message = NoMessage
    /\ wr_before = NoRows
    /\ wr_existed = FALSE
    /\ wr_failed_call = "none"
    /\ wr_inserts = 0
    /\ write_result = NoWriteResult
    /\ handler_outcome = "none"
    /\ deliveries = 0
    /\ invoice_rows \in [InvoiceIds -> {0, 1}]
    /\ line_item_rows = [id \in InvoiceIds |-> invoice_rows[id] * ItemsOf(id)]
    /\ metrics_rows = 0
    /\ wr_written = {}

\* write_extraction_metrics: one row, or a failure that is swallowed.
MetricsWritten(ok) == IF ok THEN metrics_rows + 1 ELSE metrics_rows

\* The handler decodes the message and re-validates the invoice
\* (ExtractedInvoice.model_validate); a failure there is logged, a failed
\* metrics row is attempted and the exception is re-raised.  Otherwise
\* write_invoice_to_bigquery is entered.
WriterReceive ==
    /\ impl = "writer" /\ wr_pc = "idle"
    /\ deliveries < MaxDeliveries
    /\ deliveries' = deliveries + 1
    /\ \E id \in InvoiceIds, valid \in BOOLEAN, metrics_ok \in BOOLEAN :
        /\ wr_message' = [invoice_id |-> id, items |-> ItemsOf(id),
                          valid |-> valid]
        /\ wr_before' = [invoice |-> invoice_rows[id],
                         items |-> line_item_rows[id]]
        /\ IF valid
           THEN /\ wr_pc' = "invoice_exists"
                /\ handler_outcome' = "none"
                /\ metrics_rows' = metrics_rows
           ELSE /\ wr_pc' = "idle"
                /\ handler_outcome' = "raised"
                /\ metrics_rows' = MetricsWritten(metrics_ok)
    /\ wr_existed' = FALSE
    /\ wr_failed_call' = "none"
    /\ wr_inserts' = 0
    /\ write_result' = NoWriteResult
    /\ UNCHANGED <<impl, pc, pipeVars, validatorVars, runVars, auxVars,
                   invoice_rows,
                   line_item_rows, wr_written>>

\* bq_adapter.invoice_exists(...): a duplicate returns at once.
WriterInvoiceExists ==
    /\ impl = "writer" /\ wr_pc = "invoice_exists"
    /\ \E outcome \in {"ok", "rejected"} :
        IF outcome = "rejected"
        THEN /\ wr_failed_call' = "invoice_exists"
             /\ wr_existed' = wr_existed
             /\ write_result' =
                    FailedResult(wr_message.invoice_id, "invoice_exists")
             /\ wr_pc' = "returned"
        ELSE /\ wr_failed_call' = wr_failed_call
             /\ wr_existed' = InvoiceExists(invoice_rows, wr_message.invoice_id)
             /\ IF wr_existed'
                THEN /\ write_result' = DuplicateResult(wr_message.invoice_id)
                     /\ wr_pc' = "returned"
                ELSE /\ write_result' = write_result
                     /\ wr_pc' = "write_invoice_row"
    /\ UNCHANGED <<impl, pc, pipeVars, validatorVars, runVars, auxVars,
                   wr_message,
                   wr_before, wr_inserts, handler_outcome, deliveries,
                   invoice_rows, line_item_rows, metrics_rows, wr_written>>

\* bq_adapter.write_invoice_row(...); without line items the write is
\* complete with total_rows = 1.
WriterInvoiceRow ==
    /\ impl = "writer" /\ wr_pc = "write_invoice_row"
    /\ wr_inserts' = wr_inserts + 1
    /\ \E outcome \in CallOutcomes :
        LET id == wr_message.invoice_id
        IN  /\ invoice_rows' =
                   IF outcome = "rejected" THEN invoice_rows
                   ELSE InsertRows(invoice_rows, id, 1)
            /\ IF outcome # "ok"
               THEN /\ wr_failed_call' = "write_invoice_row"
                    /\ write_result' = FailedResult(id, "write_invoice_row")
                    /\ wr_pc' = "returned"
                    /\ wr_written' = wr_written
               ELSE /\ wr_failed_call' = wr_failed_call
                    /\ wr_written' = wr_written \cup {id}
                    /\ IF wr_message.items > 0
                       THEN /\ write_result' = write_result
                            /\ wr_pc' = "write_line_item_rows"
                       ELSE /\ write_result' = WrittenResult(id, 1)
                            /\ wr_pc' = "returned"
    /\ UNCHANGED <<impl, pc, pipeVars, validatorVars, runVars, auxVars,
                   wr_message,
                   wr_before, wr_existed, handler_outcome, deliveries,
                   line_item_rows, metrics_rows>>

\* bq_adapter.write_line_item_rows(...), then total_rows = 1 + the number
\* of line items.
WriterLineItemRows ==
    /\ impl = "writer" /\ wr_pc = "write_line_item_rows"
    /\ wr_inserts' = wr_inserts + 1
    /\ \E outcome \in CallOutcomes :
        LET id == wr_message.invoice_id
        IN  /\ line_item_rows' =
                   IF outcome = "rejected" THEN line_item_rows
                   ELSE InsertRows(line_item_rows, id, wr_message.items)
            /\ IF outcome # "ok"
               THEN /\ wr_failed_call' = "write_line_item_rows"
                    /\ write_result' = FailedResult(id, "write_line_item_rows")
               ELSE /\ wr_failed_call' = wr_failed_call
                    /\ write_result' = WrittenResult(id, 1 + wr_message.items)
    /\ wr_pc' = "returned"
    /\ UNCHANGED <<impl, pc, pipeVars, validatorVars, runVars, auxVars,
                   wr_message,
                   wr_before, wr_existed, handler_outcome, deliveries,
                   invoice_rows, metrics_rows, wr_written>>

\* The handler after write_invoice_to_bigquery returned: a failed result
\* raises RuntimeError, which is logged, followed by a failed metrics row
\* and re-raised; a successful one is followed by a metrics row.
WriterFinish ==
    /\ impl = "writer" /\ wr_pc = "returned"
    /\ handler_outcome' =
           IF HandlerReraises(write_result) THEN "raised" ELSE "returned"
    /\ \E metrics_ok \in BOOLEAN : metrics_rows' = MetricsWritten(metrics_ok)
    /\ wr_pc' = "idle"
    /\ UNCHANGED <<impl, pc, pipeVars, validatorVars, runVars, auxVars,
                   wr_message,
                   wr_before, wr_existed, wr_failed_call, wr_inserts,
                   write_result, deliveries, invoice_rows, line_item_rows,
                   wr_written>>

WriterNext ==
    \/ WriterReceive
    \/ WriterInvoiceExists
    \/ WriterInvoiceRow
    \/ WriterLineItemRows
    \/ WriterFinish

SpecWriter == WriterInit /\ [][WriterNext]_vars

(***************************************************************************)
(* Concurrent executions of write_invoice_to_bigquery on one store         *)
(***************************************************************************)
Writers == 1..NumWriters

WritersInit ==
    /\ impl = "writers"
    /\ cfg = [max_retries |-> [p \in Providers |-> 0], fallback |-> FALSE]
    /\ PipeInit
    /\ inv = NoInvoice
    /\ violations = <<>>
    /\ ValidationIdle
    /\ RunsIdle
    /\ DlqIdle
    /\ SmokeIdle
    /\ wr_pc = "idle"
    /\ wr_message = NoMessage
    /\ wr_before = NoRows
    /\ wr_existed = FALSE
    /\ wr_failed_call = "none"
    /\ wr_inserts = 0
    /\ write_result = NoWriteResult
    /\ handler_outcome = "none"
    /\ deliveries = 0
    /\ metrics_rows = 0
    /\ wr_written = {}
    /\ invoice_rows \in [InvoiceIds -> {0, 1}]
    /\ line_item_rows = [id \in InvoiceIds |-> invoice_rows[id] * ItemsOf(id)]
    /\ cw_pc = [w \in Writers |-> "idle"]
    /\ cw_message \in [Writers -> InvoiceIds]
    /\ cw_existed = [w \in Writers |-> FALSE]
    /\ cw_failed_call = [w \in Writers |-> "none"]
    /\ cw_result = [w \in Writers |-> NoWriteResult]

\* Writer w enters write_invoice_to_bigquery with its invoice.
CwEnter(w) ==
    /\ impl = "writers" /\ cw_pc[w] = "idle"
    /\ cw_pc' = [cw_pc EXCEPT ![w] = "invoice_exists"]
    /\ UNCHANGED <<impl, pc, pipeVars, validatorVars, runVars, writerVars,
                   dlqVars, smokeVars, cw_message, cw_existed, cw_failed_call, cw_result>>

\* bq_adapter.invoice_exists(...) of writer w.
CwInvoiceExists(w) ==
    /\ impl = "writers" /\ cw_pc[w] = "invoice_exists"
    /\ \E outcome \in {"ok", "rejected"} :
        LET id == cw_message[w]
            existed == InvoiceExists(invoice_rows, id)
        IN  IF outcome = "rejected"
            THEN /\ cw_failed_call' =
                        [cw_failed_call EXCEPT ![w] = "invoice_exists"]
                 /\ cw_existed' = cw_existed
                 /\ cw_result' =
                        [cw_result EXCEPT ![w] = FailedResult(id, "invoice_exists")]
                 /\ cw_pc' = [cw_pc EXCEPT ![w] = "returned"]
            ELSE /\ cw_failed_call' = cw_failed_call
                 /\ cw_existed' = [cw_existed EXCEPT ![w] = existed]
                 /\ IF existed
                    THEN /\ cw_result' =
                                [cw_result EXCEPT ![w] = DuplicateResult(id)]
                         /\ cw_pc' = [cw_pc EXCEPT ![w] = "returned"]
                    ELSE /\ cw_result' = cw_result
                         /\ cw_pc' = [cw_pc EXCEPT ![w] = "write_invoice_row"]
    /\ UNCHANGED <<impl, pc, pipeVars, validatorVars, runVars, writerVars,
                   dlqVars, smokeVars, cw_message>>

\* bq_adapter.write_invoice_row(...) of writer w.
CwInvoiceRow(w) ==
    /\ impl = "writers" /\ cw_pc[w] = "write_invoice_row"
    /\ \E outcome \in CallOutcomes :
        LET id == cw_message[w]
        IN  /\ invoice_rows' =
                   IF outcome = "rejected" THEN invoice_rows
                   ELSE InsertRows(invoice_rows, id, 1)
            /\ IF outcome # "ok"
               THEN /\ cw_failed_call' =
                           [cw_failed_call EXCEPT ![w] = "write_invoice_row"]
                    /\ cw_result' = [cw_result EXCEPT ![w] =
                                        FailedResult(id, "write_invoice_row")]
                    /\ cw_pc' = [cw_pc EXCEPT ![w] = "returned"]
               ELSE /\ cw_failed_call' = cw_failed_call
                    /\ IF ItemsOf(id) > 0
                       THEN /\ cw_result' = cw_result
                            /\ cw_pc' =
                                   [cw_pc EXCEPT ![w] = "write_line_item_rows"]
                       ELSE /\ cw_result' =
                                   [cw_result EXCEPT ![w] = WrittenResult(id, 1)]
                            /\ cw_pc' = [cw_pc EXCEPT ![w] = "returned"]
    /\ UNCHANGED <<impl, pc, pipeVars, validatorVars, runVars, writerOwnVars,
                   dlqVars, smokeVars, line_item_rows, cw_message, cw_existed>>

\* bq_adapter.write_line_item_rows(...) of writer w.
CwLineItemRows(w) ==
    /\ impl = "writers" /\ cw_pc[w] = "write_line_item_rows"
    /\ \E outcome \in CallOutcomes :
        LET id == cw_message[w]
        IN  /\ line_item_rows' =
                   IF outcome = "rejected" THEN line_item_rows
                   ELSE InsertRows(line_item_rows, id, ItemsOf(id))
            /\ IF outcome # "ok"
               THEN /\ cw_failed_call' =
                           [cw_failed_call EXCEPT ![w] = "write_line_item_rows"]
                    /\ cw_result' = [cw_result EXCEPT ![w] =
                                        FailedResult(id, "write_line_item_rows")]
               ELSE /\ cw_failed_call' = cw_failed_call
                    /\ cw_result' = [cw_result EXCEPT ![w] =
                                        WrittenResult(id, 1 + ItemsOf(id))]
    /\ cw_pc' = [cw_pc EXCEPT ![w] = "returned"]
    /\ UNCHANGED <<impl, pc, pipeVars, validatorVars, runVars, writerOwnVars,
                   dlqVars, smokeVars, invoice_rows, cw_message, cw_existed>>

WritersNext ==
    \E w \in Writers :
        \/ CwEnter(w)
        \/ CwInvoiceExists(w)
        \/ CwInvoiceRow(w)
        \/ CwLineItemRows(w)

SpecWriters == WritersInit /\ [][WritersNext]_vars

(***************************************************************************)
(* Dead-letter processor: handle_dlq_message                               *)
(***************************************************************************)
\* What cloud_event.data carries: no data field; data that is not base64;
\* base64 of something that is not JSON; JSON that is not an object; an
\* object, with or without source_file and invoice_id.
DlqMessages ==
    {[kind |-> k, source_file |-> "unknown", invoice_id |-> "unknown"] :
        k \in {"no_data", "bad_base64", "bad_json", "non_object"}}
    \cup {[kind |-> "object", source_file |-> f, invoice_id |-> id] :
            f \in Stems \cup {"unknown"}, id \in InvoiceIds \cup {"unknown"}}

\* b64decode, json.loads and the .get calls of the try block raise for
\* these contents.
DecodeRaises(m) == m.kind \in {"bad_base64", "bad_json", "non_object"}

\* _generate_error_filename: the source file's stem, else the invoice_id,
\* else a time stamp.
generate_error_filename(source_file, invoice_id) ==
    IF source_file # "unknown" THEN <<source_file, ".error.json">>
    ELSE IF invoice_id # "unknown" THEN <<invoice_id, ".error.json">>
    ELSE <<"unknown_timestamp", ".error.json">>

DlqInit ==
    /\ impl = "dlq"
    /\ cfg = [max_retries |-> [p \in Providers |-> 0], fallback |-> FALSE]
    /\ PipeInit
    /\ inv = NoInvoice
    /\ violations = <<>>
    /\ ValidationIdle
    /\ RunsIdle
    /\ WriterIdle
    /\ CwIdle
    /\ SmokeIdle
    /\ dlq_message = NoDlqMessage
    /\ dlq_outcome = "none"
    /\ dlq_deliveries = 0
    /\ failed_bucket = {}

\* handle_dlq_message: get_config() and GCSAdapter(...) run before the try
\* block, so a failure to construct the storage client leaves the handler
\* as an exception; everything after is inside try/except Exception, which
\* logs and returns.
HandleDlqMessage ==
    /\ impl = "dlq"
    /\ dlq_deliveries < MaxDlqDeliveries
    /\ dlq_deliveries' = dlq_deliveries + 1
    /\ \E m \in DlqMessages, client \in {"ok", "raises"},
          write \in {"ok", "raises"} :
        /\ dlq_message' = m
        /\ IF client = "raises"
           THEN /\ dlq_outcome' = "raised"
                /\ failed_bucket' = failed_bucket
           ELSE /\ dlq_outcome' = "acknowledged"
                /\ failed_bucket' =
                       IF DecodeRaises(m) \/ write = "raises"
                       THEN failed_bucket
                       ELSE failed_bucket \cup
                            {generate_error_filename(m.source_file,
                                                     m.invoice_id)}
    /\ UNCHANGED <<impl, pc, pipeVars, validatorVars, runVars, writerVars,
                   cwVars, smokeVars>>

DlqNext == HandleDlqMessage

SpecDlq == DlqInit /\ [][DlqNext]_vars

(***************************************************************************)
(* Smoke test runner: SmokeRunner.run                                      *)
(***************************************************************************)
\* _setup_stages: five stages, and LoggingStage unless skip_logging.
SetupStages(config) ==
    <<"generate", "upload", "process", "validate", "bigquery">>
        \o (IF config.skip_logging THEN <<>> ELSE <<"logging">>)

\* StageResult(stage_name, passed, error)
StageResult(stage_name, passed, error) ==
    [stage_name |-> stage_name, passed |-> passed, error |-> error]

\* Stage.execute: the result of run, or a failed result when run raised.
StageExecute(stage_name, outcome) ==
    IF outcome = "passed" THEN StageResult(stage_name, TRUE, "none")
    ELSE IF outcome = "failed" THEN StageResult(stage_name, FALSE, "failed")
    ELSE StageResult(stage_name, FALSE, "exception")

SkipStage_Never(config, failed) == FALSE

\* `if self.config.fail_fast and failed > 0`
SkipStage(config, failed) == config.fail_fast /\ failed > 0

SmokeInit ==
    /\ impl = "smoke"
    /\ cfg = [max_retries |-> [p \in Providers |-> 0], fallback |-> FALSE]
    /\ PipeInit
    /\ inv = NoInvoice
    /\ violations = <<>>
    /\ ValidationIdle
    /\ RunsIdle
    /\ WriterIdle
    /\ DlqIdle
    /\ CwIdle
    /\ sm_config \in [fail_fast : BOOLEAN, skip_logging : BOOLEAN,
                       callback : BOOLEAN]
    /\ sm_pc = "loop"
    /\ sm_next = 1
    /\ sm_stage_results = <<>>
    /\ sm_passed = 0
    /\ sm_failed = 0
    /\ sm_skipped = 0
    /\ sm_executed = <<>>
    /\ sm_callbacks = <<>>
    /\ sm_result = NoSmokeResult

\* One iteration of `for stage in self._stages`: the stage is skipped, or
\* executed, counted and reported to the callback; an exception of the
\* callback leaves run.
SmokeStage ==
    /\ impl = "smoke" /\ sm_pc = "loop"
    /\ sm_next <= Len(SetupStages(sm_config))
    /\ sm_next' = sm_next + 1
    /\ LET stage == SetupStages(sm_config)[sm_next]
       IN  IF SkipStage(sm_config, sm_failed)
           THEN /\ sm_skipped' = sm_skipped + 1
                /\ sm_stage_results' =
                       Append(sm_stage_results,
                              StageResult(stage, FALSE, "skipped"))
                /\ sm_pc' = sm_pc
                /\ UNCHANGED <<sm_passed, sm_failed, sm_executed,
                               sm_callbacks>>
           ELSE \E outcome \in {"passed", "failed", "raised"},
                   callback_raises \in BOOLEAN :
                    LET stage_result == StageExecute(stage, outcome)
                    IN  /\ sm_executed' = Append(sm_executed, stage)
                        /\ sm_stage_results' =
                               Append(sm_stage_results, stage_result)
                        /\ sm_passed' = IF stage_result.passed
                                        THEN sm_passed + 1 ELSE sm_passed
                        /\ sm_failed' = IF stage_result.passed
                                        THEN sm_failed ELSE sm_failed + 1
                        /\ sm_skipped' = sm_skipped
                        /\ sm_callbacks' =
                               IF sm_config.callback
                               THEN Append(sm_callbacks, stage)
                               ELSE sm_callbacks
                        /\ sm_pc' = IF sm_config.callback /\ callback_raises
                                    THEN "raised" ELSE sm_pc
    /\ UNCHANGED <<impl, pc, pipeVars, validatorVars, runVars, writerVars,
                   dlqVars, cwVars, sm_config, sm_result>>

\* After the loop: success = failed == 0 and the SmokeResult.
SmokeReturn ==
    /\ impl = "smoke" /\ sm_pc = "loop"
    /\ sm_next > Len(SetupStages(sm_config))
    /\ sm_result' =
           [success |-> sm_failed = 0, stages |-> sm_stage_results,
            stages_passed |-> sm_passed, stages_failed |-> sm_failed,
            stages_skipped |-> sm_skipped]
    /\ sm_pc' = "returned"
    /\ UNCHANGED <<impl, pc, pipeVars, validatorVars, runVars, writerVars,
                   dlqVars, cwVars, sm_config, sm_next, sm_stage_results,
                   sm_passed, sm_failed, sm_skipped, sm_executed,
                   sm_callbacks>>

SmokeNext == SmokeStage \/ SmokeReturn

SpecSmoke == SmokeInit /\ [][SmokeNext]_vars

(***************************************************************************)
(* Properties                                                              *)
(***************************************************************************)
Returned == pc \in {"returned", "done"}

\* The gateway has handed its outcome back: extract_with_fallback returned
\* (local), extract_invoice returned (cloud).
GatewayFinished ==
    IF impl = "local" THEN pc \in {"gateway_returned", "returned", "done"}
    ELSE impl = "cloud" /\ Returned

ChainFailed(p) == resp[p].provider = p /\ ~resp[p].success

ChainSucceeded(p) == resp[p].provider = p /\ resp[p].success

\* What the gateway returned, in the terms shared by both implementations.
GatewaySuccess == IF impl = "local" THEN GatewayResponse.success ELSE result.success

GatewayProvider == IF impl = "local" THEN GatewayResponse.provider ELSE result.provider

GatewayErrorText ==
    IF impl = "local" THEN GatewayResponse.error_message ELSE result.errors

\* The outcome of the primary attempt as the fallback decision sees it: the
\* chain's LLMResponse (local), _try_extraction's result (cloud).
PrimaryFinished ==
    IF impl = "local" THEN resp["gemini"].provider # "none"
    ELSE attempt_result["gemini"].provider # "none"

PrimarySucceeded ==
    IF impl = "local" THEN resp["gemini"].success
    ELSE attempt_result["gemini"].success

\* C1 as stated: the fallback provider is called only after the primary's
\* whole retry chain ended in failure, and once the primary chain returned
\* success the fallback is never called and the primary's response is the
\* one returned.
C1_FallbackOnlyAfterChainFailure ==
    cfg.fallback =>
        /\ calls["openrouter"] > 0 => ChainFailed("gemini")
        /\ ChainSucceeded("gemini") =>
               /\ calls["openrouter"] = 0
               /\ GatewayFinished => GatewayProvider = "gemini"

\* C1 amended: the fallback provider is called only after the primary
\* attempt ended in failure - its whole retry chain failed or, in the cloud
\* extract_invoice, its chain returned content that parsing and schema
\* validation rejected; once the primary attempt succeeded the fallback is
\* never called and the primary's response is the one returned.
C1_FallbackOnlyAfterPrimaryFailure ==
    cfg.fallback =>
        /\ calls["openrouter"] > 0 =>
               /\ resp["gemini"].provider = "gemini"
               /\ PrimaryFinished /\ ~PrimarySucceeded
        /\ PrimarySucceeded =>
               /\ calls["openrouter"] = 0
               /\ GatewayFinished => GatewayProvider = "gemini" /\ GatewaySuccess

C1_Witness ==
    /\ ChainFailed("gemini")
    /\ calls["gemini"] = cfg.max_retries["gemini"] + 1
    /\ calls["openrouter"] > 0
    /\ GatewayFinished /\ GatewaySuccess

C2_Counts ==
    \A p \in Providers :
        /\ calls[p] <= cfg.max_retries[p] + 1
        /\ calls[p] = retry_count[p] + (IF resp[p].success THEN 1 ELSE 0)
        /\ ChainFailed(p) => calls[p] = cfg.max_retries[p] + 1
        /\ resp[p].provider = "none" /\ calls[p] > 0 =>
               last_error[p][2] \in {"empty", "exception", "timeout"}

C2_NoCallAfterReturn ==
    \A p \in Providers : resp[p].provider # "none" => calls'[p] = calls[p]

\* C2: for any max_retries >= 0 a provider chain makes at most
\* max_retries + 1 attempts, every attempt that is not a non-empty text
\* (empty text, exception, timeout) is counted as one failed attempt, the
\* chain makes exactly max_retries + 1 attempts when all fail, and it makes
\* no attempt after the one that returned non-empty text.
C2_BoundedRetries == []C2_Counts /\ [][C2_NoCallAfterReturn]_vars

C2_Witness ==
    /\ cfg.max_retries["gemini"] = MaxRetriesBound
    /\ ChainFailed("gemini")
    /\ calls["gemini"] = MaxRetriesBound + 1
    /\ ChainSucceeded("openrouter")
    /\ calls["openrouter"] = 2

\* C3: when every attempt of both providers failed, the gateway returns a
\* failure whose error text contains the final error message of the primary
\* provider and that of the fallback provider.
C3_BothErrorsReported ==
    (GatewayFinished /\ ChainFailed("gemini") /\ ChainFailed("openrouter")) =>
        /\ ~GatewaySuccess
        /\ Contains(GatewayErrorText, last_error["gemini"])
        /\ Contains(GatewayErrorText, last_error["openrouter"])

\* C4 as stated: when every primary attempt failed and the fallback
\* provider succeeded, the gateway result is a success of the fallback
\* provider.
C4_FallbackSuccessReturned ==
    (GatewayFinished /\ ChainFailed("gemini") /\ ChainSucceeded("openrouter")) =>
        GatewaySuccess /\ GatewayProvider = "openrouter"

\* C4 amended: when every primary attempt failed and the fallback provider
\* succeeded - and, in the cloud extract_invoice, the fallback's content
\* passed parsing and schema validation - the gateway result is a success
\* whose provider is the fallback; when the fallback's content is rejected
\* the result is a failure, still attributed to the fallback.
C4_FallbackAcceptedReturned ==
    (GatewayFinished /\ ChainFailed("gemini") /\ ChainSucceeded("openrouter")) =>
        /\ GatewayProvider = "openrouter"
        /\ GatewaySuccess <=>
               (impl = "cloud" =>
                    parse_and_validate(resp["openrouter"].content).raised
                        = "none")

C4_Witness ==
    /\ GatewayFinished /\ ChainFailed("gemini") /\ ChainSucceeded("openrouter")
    /\ GatewaySuccess /\ GatewayProvider = "openrouter"
    /\ impl = "cloud"

GatewayFunctions ==
    {"call_gemini", "call_openrouter", "extract_with_fallback",
     "GeminiAdapter.extract", "OpenRouterAdapter.extract"}

\* C5: no exception propagates out of a gateway function, whatever the
\* providers and the client set-up do.
C5_GatewayNeverRaises == escaped \cap GatewayFunctions = {}

\* The stages in their fixed order; both terminal outcomes come last.
StageRank(st) ==
    CASE st = "PREPROCESSING" -> 1
      [] st = "PROMPTING" -> 2
      [] st = "EXTRACTING" -> 3
      [] st = "VALIDATING" -> 4
      [] OTHER -> 5

Terminal(st) == st \in {"DONE_SUCCESS", "DONE_FAILURE"}

\* C6: one run of the local extract_invoice enters its stages in the order
\* preprocessing, prompting, extracting, validating, terminal outcome: no
\* stage is entered twice or after a later one, no stage before the
\* terminal outcome is skipped, and a successful run has entered all five.
C6_StagesInOrder ==
    impl = "local" =>
        /\ \A k \in 1..Len(stages) :
               IF Terminal(stages[k]) THEN k = Len(stages)
               ELSE StageRank(stages[k]) = k
        /\ Returned => Len(stages) > 0 /\ Terminal(stages[Len(stages)])
        /\ Returned /\ result.success =>
               stages = <<"PREPROCESSING", "PROMPTING", "EXTRACTING",
                          "VALIDATING", "DONE_SUCCESS">>

C6_Witness ==
    /\ impl = "local" /\ pc = "returned"
    /\ stages = <<"PREPROCESSING", "PROMPTING", "EXTRACTING", "VALIDATING",
                  "DONE_FAILURE">>

\* The error a failing stage puts into the result.
StageError(st) ==
    CASE st = "PREPROCESSING" -> {Tok("image", "processing_failed", 0)}
      [] st = "PROMPTING" -> {Tok("prompt", "loading_failed", 0)}
      [] st = "EXTRACTING" -> {Tok("llm", "extraction_failed", 0)}
      [] OTHER -> {Tok("schema", "json_parsing_error", 0),
                   Tok("schema", "validation_error", 0),
                   Tok("BR-001", "violation", 0), Tok("BR-003", "violation", 0)}

\* C7: a failing stage of the local extract_invoice sends the run straight
\* to the failure outcome: nothing propagates out of extract_invoice, the
\* stage that failed is the last one entered, the result has
\* success == false and carries that stage's error, and no provider is
\* called after a preprocessing or prompt failure.
C7_FailureShortCircuits ==
    impl = "local" =>
        /\ "extract_invoice" \notin escaped
        /\ pc # "raised"
        /\ (Returned /\ stages[Len(stages)] = "DONE_FAILURE") =>
               /\ ~result.success /\ ~result.has_invoice
               /\ \E e \in StageError(stages[Len(stages) - 1]) :
                      Contains(result.errors, e)
               /\ StageRank(stages[Len(stages) - 1]) < 3 =>
                      \A p \in Providers : calls[p] = 0

\* C8: a completed run has emitted exactly one terminal record: the
\* extracted-invoice record and no error record on success, an error record
\* and no extracted-invoice record on failure.
C8_OneTerminalRecord ==
    pc = "done" =>
        /\ success_records + error_records = 1
        /\ result.success => success_records = 1 /\ error_records = 0
        /\ ~result.success => success_records = 0 /\ error_records = 1

\* C9: an invoice with a hard business-rule violation (BR-001 or BR-003)
\* is never returned as a success; the result for it has success == false
\* and no invoice.
C9_HardViolationBlocksSuccess ==
    (result.success \/ result.has_invoice) =>
        Len(validate_business_rules(result.invoice)) = 0

C11_BR003ExactTolerance ==
    (impl = "rules" /\ pc = "checked") =>
        (Contains(violations, Tok("BR-003", "violation", 0))
            <=> Abs(100 * inv.commission_amount
                    - inv.subtotal * inv.commission_rate) > 2000)

\* The invoice with the line items replaced.
WithLineItems(i, items) == [i EXCEPT !.line_items = items]

\* C12: a BR-004 mismatch never blocks success: for two schema-valid
\* invoices that differ only in their line items,
\* validate_business_rules returns the same violation list and
\* validate_extraction the same is_valid, however far the line-item sum
\* is from the subtotal.
C12_LineItemsNeverBlock ==
    LET data == json_loads(in_text)
    IN  /\ (impl = "validation" /\ pc = "scored") =>
               \A items \in LineItemLists :
                   validate_business_rules(WithLineItems(inv, items))
                       = violations
        /\ (impl = "validation" /\ pc = "validated" /\ data.kind = "object") =>
               \A items \in LineItemLists :
                   LET other == validate_extraction(
                                    <<BodyLine("object",
                                               WithLineItems(data.inv, items))>>,
                                    in_confidence)
                   IN  /\ other.is_valid = out_validation.is_valid
                       /\ other.business_rule_errors
                              = out_validation.business_rule_errors

C12_Witness ==
    /\ impl = "validation" /\ pc = "validated"
    /\ json_loads(in_text).kind = "object"
    /\ Len(json_loads(in_text).inv.line_items) = 1
    /\ Abs(LineItemsSum(json_loads(in_text).inv.line_items)
           - json_loads(in_text).inv.subtotal) > 100
    /\ out_validation.is_valid

Min(a, b) == IF a < b THEN a ELSE b

Max(a, b) == IF a > b THEN a ELSE b

\* C13: calculate_confidence returns
\* min(1, max(0, 0.40*completeness + 0.30*consistency + 0.30*pc)), with
\* completeness the fraction of the 6 required fields present (6/6 for a
\* constructed ExtractedInvoice), consistency (6 - hard violations)/6 and
\* pc the provider confidence or 0.80 when none was reported; the result
\* is within [0, 1] and is 1.0 when there are no hard violations and
\* pc = 1.0.  In 1/6000: 0.40 * 6/6 = 2400, 0.30 * k/6 = 50 * k * 6 / 6,
\* 0.30 * pc = 18 * pc for pc in hundredths.
C13_ConfidenceFormula ==
    (impl = "validation" /\ pc = "scored") =>
        LET hard == Len(violations)
            provider == IF in_confidence = -1 THEN 80 ELSE in_confidence
            weighted == 2400 + 1800 - 300 * hard + 18 * provider
        IN  /\ out_confidence = Min(6000, Max(0, weighted))
            /\ out_confidence >= 0 /\ out_confidence <= 6000
            /\ (hard = 0 /\ in_confidence = 100) => out_confidence = 6000

C13_Witness ==
    /\ impl = "validation" /\ pc = "scored"
    /\ violations = <<>> /\ in_confidence = 100
    /\ out_confidence = 6000

\* SAMPLE_UBEREATS_INVOICE: subtotal 1480.00, tax 0, commission_rate 0.25,
\* commission_amount 370.00, total_amount 1110.00.
SampleInvoice ==
    [invoice_date |-> 2, due_date |-> 2, line_items |-> SampleLineItems,
     subtotal |-> 1480000, tax_amount |-> 0, commission_rate |-> 25,
     commission_amount |-> 370000, total_amount |-> 1110000]

\* C14: validating the invoice with subtotal 1480.00, tax 0, commission
\* rate 0.25, commission 370.00 and total 1110.00 yields no hard
\* business-rule violation (is_valid is true) and, for a provider
\* confidence of 0.9, a confidence of at least 0.9.
C14_SampleInvoiceValid ==
    (/\ impl = "validation" /\ pc = "validated"
     /\ in_text = <<BodyLine("object", SampleInvoice)>>
     /\ in_confidence = 90) =>
        /\ out_validation.business_rule_errors = <<>>
        /\ out_validation.is_valid
        /\ out_validation.confidence_score >= 5400

\* C15: schema validation never raises, whatever the provider text (text
\* that is not JSON and JSON that is not an object included): it returns
\* either a valid invoice with an empty error list or no invoice with a
\* non-empty error list.
C15_SchemaValidationTotal ==
    (impl = "validation" /\ pc = "validated") =>
        /\ ~out_validation.raised
        /\ out_validation.schema_valid <=> out_validation.schema_errors = <<>>

\* C16: a text T wrapped in a fenced code block (an opening fence line, T,
\* a closing fence line) with white space around it is validated to the
\* same outcome as T alone, by validate_extraction and by
\* _parse_and_validate.
C16_FencedSameOutcome ==
    (impl = "validation" /\ pc \in {"validated", "parsed"}) =>
        \A T \in PlainTexts, open \in {FenceLine, FenceJsonLine},
           b \in 0..MaxBlankLines, a \in 0..MaxBlankLines :
            in_text = Wrapped(T, open, b, a) =>
                /\ pc = "validated" =>
                       out_validation = validate_extraction(T, in_confidence)
                /\ pc = "parsed" => out_parsed = parse_and_validate(T)

\* C17: constructing an ExtractedInvoice succeeds only if
\* due_date >= invoice_date (equal dates are accepted); with
\* due_date < invoice_date construction fails with a validation error, and
\* the dates of a constructed invoice are the ones given, never swapped or
\* corrected.
C17_DueDateNotBeforeInvoiceDate ==
    impl = "validation" =>
        LET given == json_loads(CleanFences(in_text))
            local == json_loads(in_text)
        IN  /\ (pc = "parsed" /\ out_parsed.raised = "none") =>
                   /\ out_parsed.invoice.due_date >= out_parsed.invoice.invoice_date
                   /\ out_parsed.invoice.due_date = given.inv.due_date
                   /\ out_parsed.invoice.invoice_date = given.inv.invoice_date
            /\ (/\ pc = "parsed" /\ given.kind = "object"
                /\ given.inv.due_date < given.inv.invoice_date) =>
                   out_parsed = [raised |-> "ValueError", invoice |-> NoInvoice]
            /\ pc = "scored" =>
                   /\ inv.due_date >= inv.invoice_date
                   /\ inv.due_date = local.inv.due_date
                   /\ inv.invoice_date = local.inv.invoice_date
            /\ (/\ pc = "validated" /\ local.kind = "object"
                /\ local.inv.due_date < local.inv.invoice_date) =>
                   /\ ~out_validation.schema_valid /\ ~out_validation.is_valid
                   /\ Contains(out_validation.schema_errors,
                               Tok("schema", "validation_error", 0))

C17_Witness ==
    /\ impl = "validation" /\ pc = "parsed"
    /\ out_parsed.raised = "none"
    /\ out_parsed.invoice.due_date = out_parsed.invoice.invoice_date

\* C18: two runs executing concurrently share no mutable state: under
\* every interleaving each run's result and every artefact it wrote
\* (processed image, result file, error file) are what the run produces
\* alone - the result extracted from its own page, and its own files in
\* place - also when the inputs share a stem or yield the same invoice_id.
C18_RunsIndependent ==
    impl = "runs" =>
        /\ \A r \in Runs :
               run_pc[r] \in {"returned", "done"} => run_result[r].image = r
        /\ (\A r \in Runs : run_pc[r] = "done") =>
               \A r \in Runs :
                   /\ processed_files[run_input[r].stem] = r
                   /\ run_result[r].success =>
                          output_files[run_result[r].invoice_id] = File(r, r)
                   /\ ~run_result[r].success =>
                          error_files[run_input[r].stem] = File(r, r)


\* C19: a failure of any store call inside write_invoice_to_bigquery does
\* not escape it: the call comes back with a WriteResult whose success is
\* false, whose rows_written is 0 (whatever was inserted before the failure)
\* and whose error is the failure's text; and the handler, having received
\* a failed result, ends by raising, so that the message is redelivered.
C19_StoreFailureContained ==
    /\ (wr_failed_call # "none") =>
           /\ wr_pc \in {"returned", "idle"}
           /\ write_result =
                  FailedResult(wr_message.invoice_id, wr_failed_call)
    /\ (wr_pc = "idle" /\ wr_failed_call # "none") =>
           handler_outcome = "raised"
    /\ (wr_pc = "idle" /\ handler_outcome = "returned") =>
           write_result.success

\* A line-item insert failed after the invoice row was written: the result
\* reports no rows and the handler raised.
C19_Witness ==
    /\ wr_pc = "idle"
    /\ wr_failed_call = "write_line_item_rows"
    /\ invoice_rows[wr_message.invoice_id] = wr_before.invoice + 1
    /\ write_result.rows_written = 0
    /\ ~write_result.success
    /\ handler_outcome = "raised"

\* C20: handling one message after the other, a write that finds a row of
\* the invoice_id makes no insert, leaves both tables as they were and
\* returns success true, is_duplicate true, rows_written 0; so no invoice_id
\* ever has more than one invoice row, and a successful write leaves
\* exactly one.
C20_SequentialDuplicate ==
    /\ (wr_existed /\ wr_pc \in {"returned", "idle"}) =>
           /\ wr_inserts = 0
           /\ write_result = DuplicateResult(wr_message.invoice_id)
           /\ invoice_rows[wr_message.invoice_id] = wr_before.invoice
           /\ line_item_rows[wr_message.invoice_id] = wr_before.items
    /\ (impl = "writer") =>
           \A id \in InvoiceIds : invoice_rows[id] <= 1
    /\ write_result.success =>
           invoice_rows[write_result.invoice_id] = 1

\* The invoice was written by an earlier message and is delivered again.
C20_Witness ==
    /\ wr_pc = "idle"
    /\ wr_message.invoice_id \in wr_written
    /\ wr_existed
    /\ write_result.is_duplicate
    /\ handler_outcome = "returned"
    /\ invoice_rows[wr_message.invoice_id] = 1

\* C21: handle_dlq_message never ends with an exception, whatever the
\* message holds and whatever fails, the construction of the storage client
\* included.
C21_DlqNeverRaises == dlq_outcome # "raised"

\* C22: in a provider chain the waits are, in order, 1, 2, 4, ... seconds:
\* the k-th wait is 2^(k-1) and follows the k-th failed attempt when another
\* attempt is due; so a chain that is still running has waited once per
\* attempt made, a chain that has returned has waited once per attempt but
\* the last, and the fallback has not waited before its first attempt.
C22_BackoffWaits ==
    (impl \in {"local", "cloud"}) =>
        \A p \in Providers :
            /\ \A k \in 1..Len(waits[p]) : waits[p][k] = 2 ^ (k - 1)
            /\ Len(waits[p]) <= cfg.max_retries[p]
            /\ Len(waits[p]) =
                   IF resp[p].provider = "none" \/ calls[p] = 0
                   THEN calls[p] ELSE calls[p] - 1

\* The primary failed all its attempts, waiting 1 s and 2 s, and the
\* fallback is at its first attempt without having waited.
C22_Witness ==
    /\ cfg.max_retries["gemini"] = 2
    /\ ChainFailed("gemini")
    /\ waits["gemini"] = <<1, 2>>
    /\ calls["gemini"] = 3
    /\ calls["openrouter"] = 1
    /\ waits["openrouter"] = <<>>

\* The primary chain returned non-empty content that the validation of the
\* implementation rejects as unparsable or schema-invalid.
PrimaryContentRejected ==
    /\ impl \in {"local", "cloud"}
    /\ resp["gemini"].success
    /\ IF impl = "local"
       THEN LET v == validate_extraction(resp["gemini"].content, -1)
            IN  v.raised \/ ~v.schema_valid
       ELSE parse_and_validate(resp["gemini"].content).raised # "none"

FallbackAttempted ==
    \/ calls["openrouter"] > 0
    \/ attempt_result["openrouter"].provider # "none"

\* C23 as stated: after the primary returned content that cannot be parsed
\* or fails schema validation, a run with a fallback configured is declared
\* failed only after the fallback was attempted.
C23_FallbackBeforeFailure ==
    (PrimaryContentRejected /\ cfg.fallback
     /\ pc \in {"returned", "done"} /\ ~result.success)
        => FallbackAttempted

\* C23 amended: after such content the primary is not called again (its
\* calls stay at the failed attempts plus the one that returned); the cloud
\* extract_invoice with a fallback adapter has attempted the fallback by
\* the time it returns; the local extract_invoice never attempts it.
C23_ParseErrorFallback ==
    PrimaryContentRejected =>
        /\ calls["gemini"] = retry_count["gemini"] + 1
        /\ (impl = "cloud" /\ cfg.fallback /\ pc \in {"returned", "done", "raised"})
               => FallbackAttempted
        /\ (impl = "local") => ~FallbackAttempted

\* A cloud run whose primary content was rejected and whose fallback chain
\* was then tried and failed as well.
C23_Witness ==
    /\ impl = "cloud"
    /\ PrimaryContentRejected
    /\ calls["openrouter"] >= 1
    /\ pc = "returned"
    /\ ~result.success

\* C24: when validate_extraction was given a schema-valid invoice whose
\* line-item amounts sum to more than 0.10 away from the subtotal, the
\* ValidationResult carries a BR-004 entry in its warnings.
C24_BR004Warning ==
    (/\ impl = "validation" /\ pc = "validated"
     /\ json_loads(in_text).kind = "object"
     /\ out_validation.schema_valid
     /\ json_loads(in_text).inv.line_items # <<>>
     /\ Abs(LineItemsSum(json_loads(in_text).inv.line_items)
            - json_loads(in_text).inv.subtotal) > 100)
        => \E k \in 1..Len(out_validation.warnings) :
               out_validation.warnings[k][1] = "BR-004"

\* The writers of invoice_id id that returned a written (not duplicate)
\* success.
WroteInvoice(id) ==
    {w \in Writers : /\ cw_message[w] = id
                     /\ cw_pc[w] = "returned"
                     /\ cw_result[w].success
                     /\ ~cw_result[w].is_duplicate}

\* C25: the existence check and the insert are separate store calls.  A
\* writer that found no row and whose calls did not fail returns success
\* with is_duplicate false and has inserted its own invoice row, whatever
\* the other writers did in between: the invoices table holds at least one
\* row of an invoice_id for every writer that reports having written it.
C25_CheckThenInsert ==
    (impl = "writers") =>
        /\ \A w \in Writers :
               (cw_pc[w] = "returned" /\ ~cw_existed[w]
                /\ cw_failed_call[w] = "none")
                   => /\ cw_result[w].success
                      /\ ~cw_result[w].is_duplicate
        /\ \A id \in InvoiceIds :
               invoice_rows[id] >= Cardinality(WroteInvoice(id))

\* Two writers of the same invoice_id both passed the check on a store
\* without it, both inserted and both report success, not duplicate: two
\* invoice rows.
C25_Witness ==
    /\ impl = "writers"
    /\ \E id \in InvoiceIds :
        /\ invoice_rows[id] = 2
        /\ Cardinality(WroteInvoice(id)) = 2
        /\ \A w \in WroteInvoice(id) : ~cw_existed[w]

\* The index of the first stage result that is a failure of an executed
\* stage, 0 when there is none.
FirstFailure ==
    LET failures == {k \in 1..Len(sm_stage_results) :
                        /\ ~sm_stage_results[k].passed
                        /\ sm_stage_results[k].error # "skipped"}
    IN  IF failures = {} THEN 0
        ELSE CHOOSE k \in failures : \A j \in failures : k <= j

\* C26: with fail_fast, every stage after the first failing one is recorded
\* as skipped, was not executed and was not reported to the callback; at
\* most one stage failed; and the returned SmokeResult counts every
\* configured stage once and has success exactly when no stage failed.
C26_FailFast ==
    (impl = "smoke" /\ sm_config.fail_fast) =>
        LET stage_names == SetupStages(sm_config)
            first == FirstFailure
        IN  /\ sm_failed <= 1
            /\ \A k \in 1..Len(sm_stage_results) :
                   (first # 0 /\ k > first) =>
                       /\ sm_stage_results[k].error = "skipped"
                       /\ \A j \in 1..Len(sm_executed) :
                              sm_executed[j] # stage_names[k]
                       /\ \A j \in 1..Len(sm_callbacks) :
                              sm_callbacks[j] # stage_names[k]
            /\ Len(sm_executed) = sm_passed + sm_failed
            /\ (sm_pc = "returned") =>
                   /\ sm_result.stages_failed <= 1
                   /\ sm_result.stages_passed + sm_result.stages_failed
                          + sm_result.stages_skipped = Len(stage_names)
                   /\ sm_result.success <=> (sm_result.stages_failed = 0)
                   /\ Len(sm_result.stages) = Len(stage_names)

\* A fail-fast run with a callback whose third stage failed: three stages
\* executed and reported, the other three skipped.
C26_Witness ==
    /\ impl = "smoke" /\ sm_pc = "returned"
    /\ sm_config.fail_fast /\ sm_config.callback /\ ~sm_config.skip_logging
    /\ sm_result.stages_passed = 2
    /\ sm_result.stages_failed = 1
    /\ sm_result.stages_skipped = 3
    /\ sm_callbacks = <<"generate", "upload", "process">>
    /\ ~sm_result.success

\* C27: whenever write_invoice_to_bigquery has returned success for an
\* invoice, duplicate or not, also on a redelivery after an attempt that
\* failed part-way, the store holds the invoice row and a line-item row for
\* every line item of the invoice.
C27_SuccessMeansComplete ==
    (impl = "writer" /\ wr_pc \in {"returned", "idle"}
     /\ write_result.success) =>
        /\ invoice_rows[write_result.invoice_id] >= 1
        /\ line_item_rows[write_result.invoice_id]
               >= ItemsOf(write_result.invoice_id)

\* A result is a success with an invoice and no errors, or a failure
\* without an invoice and with an error.
WellFormedResult(r) ==
    /\ r.success <=> r.has_invoice
    /\ r.success => r.errors = <<>>
    /\ ~r.success => r.errors # <<>>

\* C28: every result extract_invoice returned, and every result of the
\* cloud's _try_extraction, has success exactly when it carries an invoice,
\* no errors when it is a success and at least one error when it is not.
C28_ResultWellFormed ==
    (impl \in {"local", "cloud"}) =>
        /\ (pc \in {"returned", "done"}) => WellFormedResult(result)
        /\ \A p \in Providers :
               attempt_result[p].provider # "none"
                   => WellFormedResult(attempt_result[p])

\* A local run that failed in validation, with a business-rule error as
\* its only error.
C28_Witness ==
    /\ impl = "local" /\ pc = "returned"
    /\ ~result.success /\ ~result.has_invoice
    /\ stages[Len(stages) - 1] = "VALIDATING"
    /\ Len(result.errors) = 1
    /\ result.errors[1][1] \in {"BR-001", "BR-003"}

\* C29: a gateway run makes at most (primary max_retries + 1) +
\* (fallback max_retries + 1) provider calls, and once it has ended it has
\* ended with a response: the primary's success, or the response of the
\* fallback chain.
C29_GatewayTerminates ==
    (impl \in {"local", "cloud"}) =>
        /\ calls["gemini"] + calls["openrouter"]
               <= (cfg.max_retries["gemini"] + 1)
                   + (cfg.max_retries["openrouter"] + 1)
        /\ (/\ impl = "local"
            /\ pc \in {"gateway_returned", "returned", "done", "raised"}
            /\ calls["gemini"] > 0)
               => \/ resp["gemini"].success
                  \/ resp["openrouter"].provider = "openrouter"

\* C30: every successful result of the local extract_invoice carries the
\* confidence 0.94 (5640/6000) and every successful result of the cloud
\* extraction 0.9 (5400/6000), whatever the invoice.
C30_ConstantConfidence ==
    (impl \in {"local", "cloud"} /\ pc \in {"returned", "done"}
     /\ result.success) =>
        result.confidence = IF impl = "local" THEN 5640 ELSE 5400

\* A local success for an invoice whose total is above subtotal + tax.
C30_Witness ==
    /\ impl = "local" /\ pc = "returned"
    /\ result.success
    /\ result.invoice.total_amount
           > result.invoice.subtotal + result.invoice.tax_amount
    /\ result.confidence = 5640

====
